---- MODULE Spec2Model ----
(***************************************************************************)
(* Model of the nievePool modulation engine.                               *)
(*                                                                         *)
(* This part covers ParameterManager (src/src/ParameterManager.{h,cpp}):   *)
(* the P-Lock automation sequencer (pLockValues, pLockSmoothedValues,      *)
(* currentStep, recordingEnabled), the base values, the audio offsets and  *)
(* the composed getters.                                                   *)
(*                                                                         *)
(* Numbers.  The C++ floats are modelled in fixed point: the integer n     *)
(* stands for n / Unit (Unit = 1000), so 800 is 0.8f and 10 is the 0.01    *)
(* deadband threshold.  A float product is the fixed-point product rounded *)
(* to the nearest unit (FMul).  The int parameter delayAmount is a plain   *)
(* integer number of frames.                                               *)
(*                                                                         *)
(* Layout.  Every method of ParameterManager is a definition of its effect *)
(* on the store (the member variables), under its source name.  A          *)
(* specification calls the methods through Call, which also keeps the      *)
(* history variable lastOp.                                                *)
(***************************************************************************)
EXTENDS Integers, Sequences, FiniteSets, TLC

VARIABLES
    phase,                \* "constructed" (after the constructor) or "running" (after setup())
    recordingEnabled,     \* bool recordingEnabled
    currentStep,          \* int currentStep
    pLockValues,          \* float pLockValues[P_LOCK_NUMBER][P_LOCK_SIZE]
    pLockSmoothedValues,  \* float pLockSmoothedValues[P_LOCK_NUMBER]
    pLockSmoothFactor,    \* float pLockSmoothFactor
    base,                 \* the base value of every parameter (lumakeyValue, mix, ...)
    audioOffset,          \* the audio*Offset field of every parameter
    lfo,                  \* the LFO amplitude and rate fields (xLfoAmp, xLfoRate, ...)
    paramMappings,        \* midiChannels, midiControls and oscAddresses of every parameter id
    frameBufferLength,    \* VideoFeedbackManager: int frameBufferLength
    frameCount,           \* VideoFeedbackManager: unsigned int frameCount
    currentFrameIndex,    \* VideoFeedbackManager: int currentFrameIndex
    pipeline,             \* the locals of the last processMainPipeline pass
    pastFrames,           \* VideoFeedbackManager: ofFbo* pastFrames, each slot the tick it was drawn at
    pastFramesAllocated,  \* VideoFeedbackManager: bool* pastFramesAllocated
    audioEnabled,         \* AudioReactivityManager: bool enabled
    fft,                  \* AudioReactivityManager: the fft object exists
    audioInputInitialized,\* AudioReactivityManager: the sound stream is open
    smoothedBands,        \* AudioReactivityManager: std::vector<float> smoothedBands
    mappings,             \* AudioReactivityManager: std::vector<BandMapping> mappings
    audioInputLevel,      \* AudioReactivityManager: float audioInputLevel
    audioBuffer,          \* AudioReactivityManager: std::vector<float> audioBuffer
    fftSpectrum,          \* AudioReactivityManager: std::vector<float> fftSpectrum
    fftSmoothed,          \* AudioReactivityManager: std::vector<float> fftSmoothed
    sensitivity,          \* AudioReactivityManager: float sensitivity
    smoothing,            \* AudioReactivityManager: float smoothing
    normalizationEnabled, \* AudioReactivityManager: bool normalizationEnabled
    audioMutex,           \* the holder of std::mutex audioMutex: "free", "render" or "audio"
    renderPc,             \* the render thread's position in a tick
    audioPc,              \* the audio device thread's position in audioIn()
    thread,               \* history: the thread that executed the last method
    settingsFile,         \* environment: the content of settings.xml
    focus,                \* environment: the control the performer works in this session
    lastOp,               \* history: the last method called and its arguments
    ticks,                \* history: the number of render ticks so far
    rt                    \* the record/playback scenario: its parameters and position

vars == <<phase, recordingEnabled, currentStep, pLockValues, pLockSmoothedValues,
          pLockSmoothFactor, base, audioOffset, lfo, paramMappings,
          frameBufferLength, frameCount, currentFrameIndex, pipeline, pastFrames,
          pastFramesAllocated,
          audioEnabled, fft, audioInputInitialized, smoothedBands, mappings,
          audioInputLevel, audioBuffer, fftSpectrum, fftSmoothed,
          sensitivity, smoothing, normalizationEnabled,
          audioMutex, renderPc, audioPc, thread,
          settingsFile, focus, lastOp, ticks, rt>>

\* the state of the VideoFeedbackManager
videoVars == <<frameBufferLength, frameCount, currentFrameIndex, pipeline,
               pastFrames, pastFramesAllocated>>

\* the state of the AudioReactivityManager, its lock and the threads' positions
audioVars == <<audioEnabled, fft, audioInputInitialized, smoothedBands, mappings,
               audioInputLevel, audioMutex, renderPc, audioPc,
               audioBuffer, fftSpectrum, fftSmoothed,
               sensitivity, smoothing, normalizationEnabled>>

\* the signal and the spectra of the AudioReactivityManager
spectrumVars == <<audioBuffer, fftSpectrum, fftSmoothed>>

\* the settings of the analysis
settingVars == <<sensitivity, smoothing, normalizationEnabled>>

----------------------------------------------------------------------------
(* Sizes *)

\* P_LOCK_SIZE is 240 in the source (ParameterManager.h:260); the model keeps
\* the ring of steps short so that the cursor wraps within a few ticks.
P_LOCK_SIZE == 3

P_LOCK_NUMBER == 17

\* the number of render ticks a behaviour of Spec and ParamSpec runs for
MaxTicks == 3

\* the samples of an audio block (bufferSize) and the bins kept of its
\* spectrum: the lowest and the highest
bufferSize == 2
Bins == {0, 1}

\* the ring length a VideoFeedbackManager is constructed with (60, or 30 on
\* ARM, in the source); the model keeps the ring short
DEFAULT_FRAME_BUFFER_LENGTH == 3

\* the number of values of the unsigned frameCount (2^32 in the source):
\* the counter wraps to 0 when it reaches it
FrameCountLimit == 8

\* the number of steps the record/playback scenario writes, and the number
\* of ticks it plays back (10 in the scenario, on 240 steps)
RtSteps == 2

\* one float unit (1.0f) in fixed point
Unit == 10 * 100

\* 0.01, the literal of the jitter test of updatePLocks
DeadbandThreshold == Unit \div 100

\* 0.5f, the initialiser of pLockSmoothFactor
DefaultSmoothFactor == Unit \div 2

Tracks == 0 .. (P_LOCK_NUMBER - 1)
Steps  == 0 .. (P_LOCK_SIZE - 1)

----------------------------------------------------------------------------
(* Float arithmetic in fixed point *)

Abs(x) == IF x < 0 THEN -x ELSE x

\* n / d rounded to the nearest integer, ties away from zero (d > 0)
RDiv(n, d) == IF n >= 0 THEN (2 * n + d) \div (2 * d)
                        ELSE -((2 * (-n) + d) \div (2 * d))

\* a * b for two floats
FMul(a, b) == RDiv(a * b, Unit)

\* (int) f : conversion of a float to int truncates toward zero
ToInt(f) == IF f >= 0 THEN f \div Unit ELSE -((-f) \div Unit)

----------------------------------------------------------------------------
(* enum PLockIndex *)

LUMAKEY_VALUE == 0
MIX == 1
HUE == 2
SATURATION == 3
BRIGHTNESS == 4
TEMPORAL_FILTER_MIX == 5
TEMPORAL_FILTER_RESONANCE == 6
SHARPEN_AMOUNT == 7
X_DISPLACE == 8
Y_DISPLACE == 9
Z_DISPLACE == 10
ROTATE == 11
HUE_MODULATION == 12
HUE_OFFSET == 13
HUE_LFO == 14
DELAY_AMOUNT == 15
UNUSED_16 == 16

\* The parameters that have a base value, an audio offset and a setter/getter pair
AutomatableIds == {"lumakeyValue", "mix", "hue", "saturation", "brightness",
                   "temporalFilterMix", "temporalFilterResonance", "sharpenAmount",
                   "xDisplace", "yDisplace", "zDisplace", "rotate", "hueModulation",
                   "hueOffset", "hueLFO", "delayAmount"}

FrequencyIds == {"zFrequency", "xFrequency", "yFrequency"}

LfoIds == {"xLfoAmp", "xLfoRate", "yLfoAmp", "yLfoRate",
           "zLfoAmp", "zLfoRate", "rotateLfoAmp", "rotateLfoRate"}

ParamIds == AutomatableIds \cup FrequencyIds

\* The track each automatable setter passes to recordParameter
TrackOf(id) ==
    CASE id = "lumakeyValue" -> LUMAKEY_VALUE
      [] id = "mix" -> MIX
      [] id = "hue" -> HUE
      [] id = "saturation" -> SATURATION
      [] id = "brightness" -> BRIGHTNESS
      [] id = "temporalFilterMix" -> TEMPORAL_FILTER_MIX
      [] id = "temporalFilterResonance" -> TEMPORAL_FILTER_RESONANCE
      [] id = "sharpenAmount" -> SHARPEN_AMOUNT
      [] id = "xDisplace" -> X_DISPLACE
      [] id = "yDisplace" -> Y_DISPLACE
      [] id = "zDisplace" -> Z_DISPLACE
      [] id = "rotate" -> ROTATE
      [] id = "hueModulation" -> HUE_MODULATION
      [] id = "hueOffset" -> HUE_OFFSET
      [] id = "hueLFO" -> HUE_LFO
      [] id = "delayAmount" -> DELAY_AMOUNT
      [] OTHER -> UNUSED_16

----------------------------------------------------------------------------
(* Default values: the member initialisers and resetToDefaults() *)

DefaultBase(id) ==
    CASE id \in {"hue", "saturation", "brightness", "zDisplace", "hueModulation"} -> Unit
      [] id = "zFrequency" -> 30
      [] id = "xFrequency" -> 15
      [] id = "yFrequency" -> 20
      [] OTHER -> 0

ZeroLocks == [i \in Tracks |-> [j \in Steps |-> 0]]
ZeroSmoothed == [i \in Tracks |-> 0]

----------------------------------------------------------------------------------------------------------------------------------------
(* P-Lock system *)

\* mutant: seeds from step 0 instead of the cursor
SeedAllSteps_FromStepZero(values, step) ==
    [i \in Tracks |-> [j \in Steps |-> values[i][0]]]

\* the two nested loops of startRecording: every step of every track takes the
\* value the track holds at the cursor
SeedAllSteps(values, step) ==
    [i \in Tracks |-> [j \in Steps |-> values[i][step]]]

\* mutant: the two weights of the smoothing are swapped
SmoothedValue_Swapped(raw, previous, factor) ==
    FMul(raw, factor) + FMul(previous, Unit - factor)

\* the smoothing statement of updatePLocks for one track
SmoothedValue(raw, previous, factor) ==
    FMul(raw, Unit - factor) + FMul(previous, factor)

\* mutant: the magnitude test without abs()
Deadband_NoAbs(x) == IF x < DeadbandThreshold THEN 0 ELSE x

\* the jitter test of updatePLocks
Deadband(x) == IF Abs(x) < DeadbandThreshold THEN 0 ELSE x

\* mutant: the cursor advances whether or not recording is enabled
NextStep_Always(step, recording) == (step + 1) % P_LOCK_SIZE

\* the step increment of updatePLocks
NextStep(step, recording) ==
    IF recording THEN (step + 1) % P_LOCK_SIZE ELSE step

\* mutant: the write is not guarded by recordingEnabled
RecordedValues_Unguarded(values, recording, step, paramIndex, value) ==
    IF paramIndex >= 0 /\ paramIndex < P_LOCK_NUMBER
    THEN [values EXCEPT ![paramIndex][step] = value]
    ELSE values

\* the body of recordParameter: the matrix after the call
\* a recording that writes the step of every track
RecordedValues_AllTracks(values, recording, step, paramIndex, value) ==
    IF recording /\ paramIndex >= 0 /\ paramIndex < P_LOCK_NUMBER
    THEN [i \in Tracks |-> [values[i] EXCEPT ![step] = value]]
    ELSE values

RecordedValues(values, recording, step, paramIndex, value) ==
    IF recording /\ paramIndex >= 0 /\ paramIndex < P_LOCK_NUMBER
    THEN [values EXCEPT ![paramIndex][step] = value]
    ELSE values

\* mutant: returns the raw value at the cursor instead of the smoothed value
getPLockValue_Raw(paramIndex) ==
    IF paramIndex >= 0 /\ paramIndex < P_LOCK_NUMBER
    THEN pLockValues[paramIndex][currentStep]
    ELSE 0

getPLockValue(paramIndex) ==
    IF paramIndex >= 0 /\ paramIndex < P_LOCK_NUMBER
    THEN pLockSmoothedValues[paramIndex]
    ELSE 0

startRecording ==
    /\ recordingEnabled' = TRUE
    /\ pLockValues' = SeedAllSteps(pLockValues, currentStep)
    /\ UNCHANGED <<currentStep, pLockSmoothedValues, pLockSmoothFactor,
                   base, audioOffset, lfo, paramMappings>>

\* mutant: stopping also rewinds the cursor
stopRecording_Rewind ==
    /\ recordingEnabled' = FALSE
    /\ currentStep' = 0
    /\ UNCHANGED <<pLockValues, pLockSmoothedValues, pLockSmoothFactor,
                   base, audioOffset, lfo, paramMappings>>

stopRecording ==
    /\ recordingEnabled' = FALSE
    /\ UNCHANGED <<currentStep, pLockValues, pLockSmoothedValues,
                   pLockSmoothFactor, base, audioOffset, lfo, paramMappings>>

setRecordingEnabled(enabled) ==
    /\ recordingEnabled' = enabled
    /\ UNCHANGED <<currentStep, pLockValues, pLockSmoothedValues,
                   pLockSmoothFactor, base, audioOffset, lfo, paramMappings>>

\* mutant: only the raw values are cleared
clearAllLocks_RawOnly ==
    /\ pLockValues' = ZeroLocks
    /\ UNCHANGED <<recordingEnabled, currentStep, pLockSmoothedValues,
                   pLockSmoothFactor, base, audioOffset, lfo, paramMappings>>

clearAllLocks ==
    /\ pLockSmoothedValues' = ZeroSmoothed
    /\ pLockValues' = ZeroLocks
    /\ UNCHANGED <<recordingEnabled, currentStep, pLockSmoothFactor,
                   base, audioOffset, lfo, paramMappings>>

\* the smoothing loop over the tracks, then the step increment
updatePLocks ==
    /\ pLockSmoothedValues' =
          [i \in Tracks |->
              Deadband(SmoothedValue(pLockValues[i][currentStep],
                                     pLockSmoothedValues[i], pLockSmoothFactor))]
    /\ currentStep' = NextStep(currentStep, recordingEnabled)
    /\ UNCHANGED <<recordingEnabled, pLockValues, pLockSmoothFactor,
                   base, audioOffset, lfo, paramMappings>>

recordParameter(paramIndex, value) ==
    /\ pLockValues' = RecordedValues(pLockValues, recordingEnabled, currentStep,
                                     paramIndex, value)
    /\ UNCHANGED <<recordingEnabled, currentStep, pLockSmoothedValues,
                   pLockSmoothFactor, base, audioOffset, lfo, paramMappings>>

\* the ids of initializeParameterMaps() that are not float or int effect
\* parameters or LFO parameters: the toggles, the video-reactivity parameters
\* and the mode flags (their values are not part of this model)
OtherIds ==
    {"hueInvert", "saturationInvert", "brightnessInvert", "horizontalMirror",
     "verticalMirror", "lumakeyInvert", "toroidEnabled", "mirrorModeEnabled",
     "wetModeEnabled",
     "vLumakeyValue", "vMix", "vHue", "vSaturation", "vBrightness",
     "vTemporalFilterMix", "vTemporalFilterResonance", "vSharpenAmount",
     "vXDisplace", "vYDisplace", "vZDisplace", "vRotate", "vHueModulation",
     "vHueOffset", "vHueLFO",
     "videoReactiveMode", "lfoAmpMode", "lfoRateMode"}

\* std::vector<std::string> parameterIds, the parameter catalog
parameterIds == OtherIds \cup ParamIds \cup LfoIds

\* midiChannels[id] = -1; midiControls[id] = -1; oscAddresses[id] = ""
DefaultMapping == [midiChannel |-> -1, midiControl |-> -1, oscAddr |-> ""]

DefaultMappingTable == [id \in parameterIds |-> DefaultMapping]

\* the assignments of the parameters, LFO values and audio offsets, then
\* clearAllLocks(), then the mappings
resetToDefaults ==
    /\ base' = [id \in ParamIds |-> DefaultBase(id)]
    /\ lfo' = [id \in LfoIds |-> 0]
    /\ paramMappings' = DefaultMappingTable
    /\ audioOffset' = [id \in ParamIds |-> 0]
    /\ pLockSmoothedValues' = ZeroSmoothed
    /\ pLockValues' = ZeroLocks
    /\ UNCHANGED <<recordingEnabled, currentStep, pLockSmoothFactor>>

----------------------------------------------------------------------------
(* Base-value setters.  Every automatable setter has the same body: write  *)
(* the base value, then, if `recordable`, call recordParameter with the    *)
(* parameter's own PLockIndex.                                             *)

\* `recorded` is the second argument the setter passes to recordParameter
SetBase(id, value, recordable, paramIndex, recorded) ==
    /\ base' = [base EXCEPT ![id] = value]
    /\ pLockValues' =
          IF recordable
          THEN RecordedValues(pLockValues, recordingEnabled, currentStep,
                              paramIndex, recorded)
          ELSE pLockValues
    /\ UNCHANGED <<recordingEnabled, currentStep, pLockSmoothedValues,
                   pLockSmoothFactor, audioOffset, lfo, paramMappings>>

\* the frequency setters ignore `recordable`: "No P-Lock recording for frequency"
SetBaseOnly(id, value) ==
    /\ base' = [base EXCEPT ![id] = value]
    /\ UNCHANGED <<recordingEnabled, currentStep, pLockValues,
                   pLockSmoothedValues, pLockSmoothFactor, audioOffset, lfo, paramMappings>>

\* static_cast<float>(value) / (P_LOCK_SIZE - 1.0f) in setDelayAmount
NormalizedDelay(value) == RDiv(value * Unit, P_LOCK_SIZE - 1)

setLumakeyValue(value, recordable) ==
    SetBase("lumakeyValue", value, recordable, LUMAKEY_VALUE, value)
setMix(value, recordable) ==
    SetBase("mix", value, recordable, MIX, value)
setHue(value, recordable) ==
    SetBase("hue", value, recordable, HUE, value)
setSaturation(value, recordable) ==
    SetBase("saturation", value, recordable, SATURATION, value)
setBrightness(value, recordable) ==
    SetBase("brightness", value, recordable, BRIGHTNESS, value)
setTemporalFilterMix(value, recordable) ==
    SetBase("temporalFilterMix", value, recordable, TEMPORAL_FILTER_MIX, value)
setTemporalFilterResonance(value, recordable) ==
    SetBase("temporalFilterResonance", value, recordable, TEMPORAL_FILTER_RESONANCE, value)
setSharpenAmount(value, recordable) ==
    SetBase("sharpenAmount", value, recordable, SHARPEN_AMOUNT, value)
setXDisplace(value, recordable) ==
    SetBase("xDisplace", value, recordable, X_DISPLACE, value)
setYDisplace(value, recordable) ==
    SetBase("yDisplace", value, recordable, Y_DISPLACE, value)
setZDisplace(value, recordable) ==
    SetBase("zDisplace", value, recordable, Z_DISPLACE, value)
setRotate(value, recordable) ==
    SetBase("rotate", value, recordable, ROTATE, value)
setHueModulation(value, recordable) ==
    SetBase("hueModulation", value, recordable, HUE_MODULATION, value)
\* mutant: hueOffset is recorded on the track of hue
setHueOffset_OnHueTrack(value, recordable) ==
    SetBase("hueOffset", value, recordable, HUE, value)
setHueOffset(value, recordable) ==
    SetBase("hueOffset", value, recordable, HUE_OFFSET, value)
setHueLFO(value, recordable) ==
    SetBase("hueLFO", value, recordable, HUE_LFO, value)
setDelayAmount(value, recordable) ==
    SetBase("delayAmount", value, recordable, DELAY_AMOUNT, NormalizedDelay(value))
setZFrequency(value, recordable) == SetBaseOnly("zFrequency", value)
setXFrequency(value, recordable) == SetBaseOnly("xFrequency", value)
setYFrequency(value, recordable) == SetBaseOnly("yFrequency", value)

----------------------------------------------------------------------------
(* Audio-offset setters: each stores its argument in its own field *)

SetAudio(id, offset) ==
    /\ audioOffset' = [audioOffset EXCEPT ![id] = offset]
    /\ UNCHANGED <<recordingEnabled, currentStep, pLockValues,
                   pLockSmoothedValues, pLockSmoothFactor, base, lfo, paramMappings>>

setAudioLumakeyValueOffset(offset) == SetAudio("lumakeyValue", offset)
setAudioMixOffset(offset) == SetAudio("mix", offset)
setAudioHueOffset(offset) == SetAudio("hue", offset)
setAudioSaturationOffset(offset) == SetAudio("saturation", offset)
setAudioBrightnessOffset(offset) == SetAudio("brightness", offset)
setAudioTemporalFilterMixOffset(offset) == SetAudio("temporalFilterMix", offset)
setAudioTemporalFilterResonanceOffset(offset) == SetAudio("temporalFilterResonance", offset)
setAudioSharpenAmountOffset(offset) == SetAudio("sharpenAmount", offset)
setAudioXDisplaceOffset(offset) == SetAudio("xDisplace", offset)
setAudioYDisplaceOffset(offset) == SetAudio("yDisplace", offset)
setAudioZDisplaceOffset(offset) == SetAudio("zDisplace", offset)
\* mutant: the audio offset of rotate is recorded like a base value
setAudioRotateOffset_Recorded(offset) ==
    /\ audioOffset' = [audioOffset EXCEPT !["rotate"] = offset]
    /\ pLockValues' = RecordedValues(pLockValues, recordingEnabled, currentStep,
                                     ROTATE, offset)
    /\ UNCHANGED <<recordingEnabled, currentStep, pLockSmoothedValues,
                   pLockSmoothFactor, base, lfo, paramMappings>>
setAudioRotateOffset(offset) == SetAudio("rotate", offset)
setAudioHueModulationOffset(offset) == SetAudio("hueModulation", offset)
setAudioHueOffsetOffset(offset) == SetAudio("hueOffset", offset)
setAudioHueLFOOffset(offset) == SetAudio("hueLFO", offset)
setAudioDelayAmountOffset(offset) == SetAudio("delayAmount", offset)
setAudioZFrequencyOffset(offset) == SetAudio("zFrequency", offset)
setAudioXFrequencyOffset(offset) == SetAudio("xFrequency", offset)
setAudioYFrequencyOffset(offset) == SetAudio("yFrequency", offset)

----------------------------------------------------------------------------
(* LFO amplitude and rate setters: each stores its argument in its own field *)

SetLfo(id, value) ==
    /\ lfo' = [lfo EXCEPT ![id] = value]
    /\ UNCHANGED <<recordingEnabled, currentStep, pLockValues,
                   pLockSmoothedValues, pLockSmoothFactor, base, audioOffset,
                   paramMappings>>

setXLfoAmp(value) == SetLfo("xLfoAmp", value)
setXLfoRate(value) == SetLfo("xLfoRate", value)
setYLfoAmp(value) == SetLfo("yLfoAmp", value)
setYLfoRate(value) == SetLfo("yLfoRate", value)
setZLfoAmp(value) == SetLfo("zLfoAmp", value)
setZLfoRate(value) == SetLfo("zLfoRate", value)
setRotateLfoAmp(value) == SetLfo("rotateLfoAmp", value)
setRotateLfoRate(value) == SetLfo("rotateLfoRate", value)

----------------------------------------------------------------------------
(* Getters: base + audio offset + P-Lock, composed as each getter writes it *)

getLumakeyValue ==
    base["lumakeyValue"] + audioOffset["lumakeyValue"] + getPLockValue(LUMAKEY_VALUE)
getMix ==
    base["mix"] + audioOffset["mix"] + getPLockValue(MIX)
getHue ==
    FMul(base["hue"] + audioOffset["hue"], Unit + getPLockValue(HUE))
getSaturation ==
    FMul(base["saturation"] + audioOffset["saturation"], Unit + getPLockValue(SATURATION))
getBrightness ==
    FMul(base["brightness"] + audioOffset["brightness"], Unit + getPLockValue(BRIGHTNESS))
getTemporalFilterMix ==
    base["temporalFilterMix"] + audioOffset["temporalFilterMix"]
        + getPLockValue(TEMPORAL_FILTER_MIX)
getTemporalFilterResonance ==
    base["temporalFilterResonance"] + audioOffset["temporalFilterResonance"]
        + getPLockValue(TEMPORAL_FILTER_RESONANCE)
getSharpenAmount ==
    base["sharpenAmount"] + audioOffset["sharpenAmount"] + getPLockValue(SHARPEN_AMOUNT)
getXDisplace ==
    base["xDisplace"] + audioOffset["xDisplace"] + getPLockValue(X_DISPLACE)
getYDisplace ==
    base["yDisplace"] + audioOffset["yDisplace"] + getPLockValue(Y_DISPLACE)
getZDisplace ==
    FMul(base["zDisplace"] + audioOffset["zDisplace"], Unit + getPLockValue(Z_DISPLACE))
getZFrequency == base["zFrequency"] + audioOffset["zFrequency"]
getXFrequency == base["xFrequency"] + audioOffset["xFrequency"]
getYFrequency == base["yFrequency"] + audioOffset["yFrequency"]
getRotate ==
    base["rotate"] + audioOffset["rotate"] + getPLockValue(ROTATE)
\* mutant: hueModulation composed like the other multiplicative parameters
getHueModulation_Plus ==
    FMul(base["hueModulation"] + audioOffset["hueModulation"],
         Unit + getPLockValue(HUE_MODULATION))
getHueModulation ==
    FMul(base["hueModulation"] + audioOffset["hueModulation"],
         Unit - getPLockValue(HUE_MODULATION))
getHueOffset ==
    base["hueOffset"] + audioOffset["hueOffset"] + getPLockValue(HUE_OFFSET)
\* mutant: hueLFO reads the track of hueOffset
getHueLFO_OnHueOffsetTrack ==
    base["hueLFO"] + audioOffset["hueLFO"] + getPLockValue(HUE_OFFSET)
getHueLFO ==
    base["hueLFO"] + audioOffset["hueLFO"] + getPLockValue(HUE_LFO)
\* delayAmount and its offset are ints; the P-Lock term is (int)(float * 239.0f)
getDelayAmount ==
    base["delayAmount"] + audioOffset["delayAmount"]
        + ToInt(getPLockValue(DELAY_AMOUNT) * (P_LOCK_SIZE - 1))

----------------------------------------------------------------------------
(* Settings: what loadFromXml reads from settings.xml.  A document is a    *)
(* record: exists (the file loads), hasParamManager / hasPlocks / hasLocks *)
(* (the tags exist), smoothFactor, locks (per track the comma-separated    *)
(* "values" list, already parsed) and params (the <param> tags in order).  *)

Min(a, b) == IF a < b THEN a ELSE b

\* the loop over lock0 .. lock16: only the first min(values.size(), P_LOCK_SIZE)
\* steps of a track are overwritten
LoadedLocks(xml, values) ==
    [i \in Tracks |->
        [j \in Steps |->
            IF j < Min(Len(xml.locks[i]), P_LOCK_SIZE)
            THEN xml.locks[i][j + 1]
            ELSE values[i][j]]]

\* xml.getAttribute("param", name, default, i): a <param> tag is a record of
\* the attributes it has
Attribute(p, name, default) == IF name \in DOMAIN p THEN p[name] ELSE default

\* mutant: the first <param> tag whose id is missing or unknown ends the loop
LoadedBase_Aborting(params, b) ==
    LET bad == {k \in 1 .. Len(params) :
                   Attribute(params[k], "id", "unknown") \notin parameterIds}
        stop == IF bad = {} THEN Len(params) + 1
                ELSE CHOOSE k \in bad : \A j \in bad : k <= j
    IN  [id \in DOMAIN b |->
            LET hits == {k \in 1 .. (stop - 1) :
                            params[k].id = id /\ "value" \in DOMAIN params[k]}
            IN  IF hits = {} THEN b[id]
                ELSE params[CHOOSE k \in hits : \A j \in hits : j <= k].value]

\* the loop over the <param> tags: a known id with a value calls its setter
\* with recordable = false, any other id is skipped
RECURSIVE LoadedBase(_, _)
LoadedBase(params, b) ==
    IF params = <<>> THEN b
    ELSE LET p == Head(params)
             id == Attribute(p, "id", "unknown")
         IN  LoadedBase(Tail(params),
                        IF id \in ParamIds /\ "value" \in DOMAIN p
                        THEN [b EXCEPT ![id] = p.value] ELSE b)

\* the same loop for the LFO ids
RECURSIVE LoadedLfo(_, _)
LoadedLfo(params, l) ==
    IF params = <<>> THEN l
    ELSE LET p == Head(params)
             id == Attribute(p, "id", "unknown")
         IN  LoadedLfo(Tail(params),
                       IF id \in LfoIds /\ "value" \in DOMAIN p
                       THEN [l EXCEPT ![id] = p.value] ELSE l)

\* the same loop for the mappings: a record whose id is in parameterIds sets
\* the id's three mappings, each to its attribute or to the default
RECURSIVE LoadedMappings(_, _)
LoadedMappings(params, table) ==
    IF params = <<>> THEN table
    ELSE LET p == Head(params)
             id == Attribute(p, "id", "unknown")
         IN  LoadedMappings(Tail(params),
                 IF id /= "unknown" /\ id \in parameterIds
                 THEN [table EXCEPT ![id] =
                          [midiChannel |-> Attribute(p, "midiChannel", -1),
                           midiControl |-> Attribute(p, "midiControl", -1),
                           oscAddr |-> Attribute(p, "oscAddr", "")]]
                 ELSE table)

loadFromXml(xml) ==
    IF ~xml.hasParamManager
    THEN UNCHANGED <<recordingEnabled, currentStep, pLockValues, pLockSmoothedValues,
                     pLockSmoothFactor, base, audioOffset, lfo, paramMappings>>
    ELSE /\ pLockSmoothFactor' =
              IF xml.hasPlocks THEN xml.smoothFactor ELSE pLockSmoothFactor
         /\ pLockValues' =
              IF xml.hasPlocks /\ xml.hasLocks
              THEN LoadedLocks(xml, pLockValues) ELSE pLockValues
         /\ base' = LoadedBase(xml.params, base)
         /\ lfo' = LoadedLfo(xml.params, lfo)
         /\ paramMappings' = LoadedMappings(xml.params, paramMappings)
         /\ UNCHANGED <<recordingEnabled, currentStep, pLockSmoothedValues, audioOffset>>

\* loadSettings(), and resetToDefaults() if it fails
setup(xml) ==
    IF xml.exists THEN loadFromXml(xml) ELSE resetToDefaults

----------------------------------------------------------------------------
(* VideoFeedbackManager: the ring of past frames *)

\* a % b of C++ for int operands: the remainder has the sign of a
CRem(a, b) == IF a >= 0 THEN a % b ELSE -((-a) % b)

\* ofClamp(value, min, max)
ofClamp(value, min, max) ==
    IF value < min THEN min ELSE IF value > max THEN max ELSE value

\* mutant: the ring length is not added before the remainder is taken
DelayIndex_NoBias(length, index, delayAmount) ==
    CRem(index - delayAmount, length)

\* int delayIndex = (frameBufferLength + currentFrameIndex - delayAmount) % frameBufferLength
DelayIndex(length, index, delayAmount) ==
    CRem(length + index - delayAmount, length)

\* int temporalIndex = (frameBufferLength + currentFrameIndex - 1) % frameBufferLength
TemporalIndex(length, index) == CRem(length + index - 1, length)

\* int storeIndex = (frameBufferLength + currentFrameIndex - 1) % frameBufferLength
StoreIndex(length, index) == CRem(length + index - 1, length)

\* allocatePastFrameIfNeeded(index) on the ring [frames, allocated]: a slot
\* in range whose tracking entry is false is allocated, cleared to black and
\* marked.  The tracking array has the length the constructor gave it; an
\* index beyond it reads whatever lies behind the array (garbage), and the
\* mark written there is not part of the array
allocatePastFrameIfNeeded(ring, index, garbage) ==
    IF /\ index >= 0 /\ index < frameBufferLength
       /\ ~(IF index \in DOMAIN ring.allocated THEN ring.allocated[index]
                                               ELSE garbage)
    THEN [frames    |-> [ring.frames EXCEPT ![index] = -1],
          allocated |-> IF index \in DOMAIN ring.allocated
                        THEN [ring.allocated EXCEPT ![index] = TRUE]
                        ELSE ring.allocated]
    ELSE ring

\* the ring after a pass of the pipeline: the three slots are allocated if
\* needed, then the output of this tick is stored
RingAfterPass(garbage) ==
    LET delayAmount == ofClamp(getDelayAmount, 0, frameBufferLength - 1)
        ring0 == [frames |-> pastFrames, allocated |-> pastFramesAllocated]
        ring1 == allocatePastFrameIfNeeded(ring0,
                    DelayIndex(frameBufferLength, currentFrameIndex, delayAmount),
                    garbage)
        ring2 == allocatePastFrameIfNeeded(ring1,
                    TemporalIndex(frameBufferLength, currentFrameIndex), garbage)
        ring3 == allocatePastFrameIfNeeded(ring2,
                    StoreIndex(frameBufferLength, currentFrameIndex), garbage)
    IN  [frames    |-> [ring3.frames EXCEPT
                           ![StoreIndex(frameBufferLength, currentFrameIndex)] =
                               frameCount],
         allocated |-> ring3.allocated]

\* processMainPipeline: the delay read from the parameters and clamped, the
\* three ring indices, the allocation of their slots and the store
processMainPipeline ==
    /\ pipeline' =
          LET delayAmount == ofClamp(getDelayAmount, 0, frameBufferLength - 1)
          IN  [returned      |-> getDelayAmount,
               delayAmount   |-> delayAmount,
               delayIndex    |-> DelayIndex(frameBufferLength, currentFrameIndex,
                                            delayAmount),
               temporalIndex |-> TemporalIndex(frameBufferLength, currentFrameIndex),
               storeIndex    |-> StoreIndex(frameBufferLength, currentFrameIndex)]
    /\ \E garbage \in BOOLEAN :
          /\ pastFrames' = RingAfterPass(garbage).frames
          /\ pastFramesAllocated' = RingAfterPass(garbage).allocated
    /\ UNCHANGED <<frameBufferLength, frameCount, currentFrameIndex>>

\* frameCount++ on an unsigned int, then the index
incrementFrameIndex ==
    /\ frameCount' = (frameCount + 1) % FrameCountLimit
    /\ currentFrameIndex' = ((frameCount + 1) % FrameCountLimit) % frameBufferLength
    /\ UNCHANGED <<frameBufferLength, pipeline, pastFrames, pastFramesAllocated>>

\* setFrameBufferLength: a new array of slots; pastFramesAllocated is not
\* assigned
setFrameBufferLength(length) ==
    /\ frameBufferLength' = length
    /\ pastFrames' = [i \in 0 .. (length - 1) |->
                         IF i < frameBufferLength THEN pastFrames[i] ELSE -1]
    /\ UNCHANGED <<frameCount, currentFrameIndex, pipeline>>

\* VideoFeedbackManager::loadFromXml: the saved ring length replaces the
\* current one if it differs and is positive
VideoLoadFromXml(savedBufferLength) ==
    IF savedBufferLength # frameBufferLength /\ savedBufferLength > 0
    THEN setFrameBufferLength(savedBufferLength)
    ELSE UNCHANGED <<frameBufferLength, frameCount, currentFrameIndex, pipeline,
                       pastFrames>>

\* no pass of the pipeline has run
NoPass == [returned |-> 0, delayAmount |-> 0, delayIndex |-> 0,
           temporalIndex |-> 0, storeIndex |-> 0]

----------------------------------------------------------------------------
(* Inputs *)

\* the settings documents a session starts from
LockPattern(i, j) ==
    CASE (i + 2 * j) % 4 = 0 -> 0
      [] (i + 2 * j) % 4 = 1 -> 5
      [] (i + 2 * j) % 4 = 2 -> -800
      [] OTHER -> 300

PatternLocks == [i \in Tracks |-> [k \in 1 .. P_LOCK_SIZE |-> LockPattern(i, k - 1)]]

NoFile == [exists |-> FALSE, hasParamManager |-> FALSE, hasPlocks |-> FALSE,
           hasLocks |-> FALSE, smoothFactor |-> 0,
           locks |-> [i \in Tracks |-> <<>>], params |-> <<>>]

FileA == [exists |-> TRUE, hasParamManager |-> TRUE, hasPlocks |-> TRUE,
          hasLocks |-> TRUE, smoothFactor |-> 0,
          locks |-> PatternLocks, params |-> <<>>]

FileB == [exists |-> TRUE, hasParamManager |-> TRUE, hasPlocks |-> TRUE,
          hasLocks |-> TRUE, smoothFactor |-> 500,
          locks |-> PatternLocks,
          params |-> << [id |-> "mix", value |-> 250],
                        [id |-> "noSuchParameter", value |-> 1],
                        [id |-> "delayAmount", value |-> 1],
                        [id |-> "xLfoRate", value |-> 250] >>]

FileC == [exists |-> TRUE, hasParamManager |-> TRUE, hasPlocks |-> TRUE,
          hasLocks |-> FALSE, smoothFactor |-> 0,
          locks |-> [i \in Tracks |-> <<>>], params |-> <<>>]

SettingsFiles == {NoFile, FileA, FileB}

\* no settings.xml
NoSettings == [param |-> NoFile]

FloatValues == {800}
DelayValues == {1}
OffsetValues == {100}
DelayOffsets == {1}
RecordIndices == {-1, DELAY_AMOUNT, P_LOCK_NUMBER}
RecordValues == {-300}
LfoValues == {800}

\* the ring lengths a settings file holds, and the delay amounts set
SavedLengths == 0 .. (DEFAULT_FRAME_BUFFER_LENGTH + 1)
RingDelayValues == {-2, 0, 1, DEFAULT_FRAME_BUFFER_LENGTH + 2}

\* the scenario's settings (smoothing factor 0), tracks and values
RtFiles == {FileA, FileC}
RtTracks == {LUMAKEY_VALUE, MIX, DELAY_AMOUNT}
RtValues == {-300, 10, 800}

----------------------------------------------------------------------------
(* AudioReactivityManager (src/src/AudioReactivityManager.{h,cpp}): the    *)
(* band mappings.  A BandMapping is a record [band, paramId, scale, min,   *)
(* max, additive]; scale, min, max and the band energies are floats.       *)

\* int numBands, as constructed
numBands == 8

Bands == 0 .. (numBands - 1)

\* the constructor: bands of energy 0 and no mapping
ZeroBands == [b \in Bands |-> 0]

\* the parameter whose offset setter applyParameterValue calls for a paramId,
\* "" where no branch matches
TargetOf(paramId) ==
    CASE paramId \in {"lumakey_value", "lumakeyValue"} -> "lumakeyValue"
      [] paramId = "mix" -> "mix"
      [] paramId = "hue" -> "hue"
      [] paramId = "saturation" -> "saturation"
      [] paramId = "brightness" -> "brightness"
      [] paramId \in {"temporal_filter_mix", "temporalFilterMix"} -> "temporalFilterMix"
      [] paramId \in {"temporal_filter_resonance", "temporalFilterResonance"} ->
            "temporalFilterResonance"
      [] paramId \in {"sharpen_amount", "sharpenAmount"} -> "sharpenAmount"
      [] paramId \in {"x_displace", "xDisplace"} -> "xDisplace"
      [] paramId \in {"y_displace", "yDisplace"} -> "yDisplace"
      [] paramId \in {"z_displace", "zDisplace"} -> "zDisplace"
      [] paramId \in {"z_frequency", "zFrequency"} -> "zFrequency"
      [] paramId \in {"x_frequency", "xFrequency"} -> "xFrequency"
      [] paramId \in {"y_frequency", "yFrequency"} -> "yFrequency"
      [] paramId = "rotate" -> "rotate"
      [] paramId \in {"hue_modulation", "hueModulation"} -> "hueModulation"
      [] paramId \in {"hue_offset", "hueOffset"} -> "hueOffset"
      [] paramId \in {"hue_lfo", "hueLFO"} -> "hueLFO"
      [] paramId \in {"delay_amount", "delayAmount"} -> "delayAmount"
      [] OTHER -> ""

\* mutant: every mapping adds its value to the offset already there
applyParameterValue_Sum(offsets, paramId, value, additive) ==
    LET id == TargetOf(paramId) IN
    IF id = "" THEN offsets
    ELSE IF id = "delayAmount" THEN [offsets EXCEPT ![id] = offsets[id] + ToInt(value)]
    ELSE [offsets EXCEPT ![id] = offsets[id] + value]

\* mutant: the additive flag adds the value to the offset already there
applyParameterValue_Additive(offsets, paramId, value, additive) ==
    LET id == TargetOf(paramId) IN
    IF id = "" THEN offsets
    ELSE IF id = "delayAmount" THEN [offsets EXCEPT ![id] = ToInt(value)]
    ELSE IF additive THEN [offsets EXCEPT ![id] = offsets[id] + value]
    ELSE [offsets EXCEPT ![id] = value]

\* applyParameterValue(paramId, value, additive): the audio offsets after the
\* call of the offset setter; the additive flag is ignored, the delay offset is
\* static_cast<int>(value)
applyParameterValue(offsets, paramId, value, additive) ==
    LET id == TargetOf(paramId) IN
    IF id = "" THEN offsets
    ELSE IF id = "delayAmount" THEN [offsets EXCEPT ![id] = ToInt(value)]
    ELSE [offsets EXCEPT ![id] = value]

\* mutant: the scale does not enter the value
MappedValue_NoScale(mapping, energies) ==
    ofClamp(mapping.min + FMul(energies[mapping.band], mapping.max - mapping.min),
            mapping.min, mapping.max)

\* the value applyMappings computes for one mapping:
\* ofClamp(min + value * scale * (max - min), min, max)
MappedValue(mapping, energies) ==
    ofClamp(mapping.min + FMul(FMul(energies[mapping.band], mapping.scale),
                               mapping.max - mapping.min),
            mapping.min, mapping.max)

\* the loop of applyMappings over the mapping list, in list order; a mapping
\* whose band is out of range is skipped
RECURSIVE AppliedMappings(_, _, _)
AppliedMappings(list, energies, offsets) ==
    IF list = <<>> THEN offsets
    ELSE LET mapping == Head(list)
             applied == IF mapping.band >= 0 /\ mapping.band < numBands
                        THEN applyParameterValue(offsets, mapping.paramId,
                                                 MappedValue(mapping, energies),
                                                 mapping.additive)
                        ELSE offsets
         IN AppliedMappings(Tail(list), energies, applied)

applyMappings ==
    /\ audioOffset' = AppliedMappings(mappings, smoothedBands, audioOffset)
    /\ UNCHANGED <<recordingEnabled, currentStep, pLockValues,
                   pLockSmoothedValues, pLockSmoothFactor, base, lfo, paramMappings>>

\* getBand(band): smoothedBands[band], 0.0f for a band out of range
getBand(band) ==
    IF band >= 0 /\ band < numBands THEN smoothedBands[band] ELSE 0

\* the list without its element at the 0-based index
Erased(list, index) ==
    SubSeq(list, 1, index) \o SubSeq(list, index + 2, Len(list))

\* mutant: an index past the end removes the last mapping
removeMapping_Clamped(index) ==
    /\ mappings' = IF index >= 0 /\ mappings /= <<>>
                   THEN Erased(mappings, Min(index, Len(mappings) - 1))
                   ELSE mappings
    /\ UNCHANGED <<audioEnabled, fft, audioInputInitialized, smoothedBands,
                   audioInputLevel, spectrumVars, settingVars>>

\* removeMapping(index): erases the mapping if 0 <= index < mappings.size()
removeMapping(index) ==
    /\ mappings' = IF index >= 0 /\ index < Len(mappings)
                   THEN Erased(mappings, index)
                   ELSE mappings
    /\ UNCHANGED <<audioEnabled, fft, audioInputInitialized, smoothedBands,
                   audioInputLevel, spectrumVars, settingVars>>

----------------------------------------------------------------------------
(* The store from construction on *)

\* the record kept in lastOp: the method's name and its arguments (0 / FALSE
\* where it has none); a base setter is named by the parameter it sets
Called(name, index, value, flag) ==
    [op |-> name, index |-> index, value |-> value, flag |-> flag]

\* AudioReactivityManager's constructor: the bands and the mapping list
ConstructedAnalyzer ==
    /\ smoothedBands = ZeroBands
    /\ mappings = <<>>

\* the constructors: the member initialisers, the zeroed P-Lock arrays and
\* resetToDefaults(); the ring of the default length
ConstructedStore ==
    /\ phase = "constructed"
    /\ recordingEnabled = FALSE
    /\ currentStep = 0
    /\ pLockValues = ZeroLocks
    /\ pLockSmoothedValues = ZeroSmoothed
    /\ pLockSmoothFactor = DefaultSmoothFactor
    /\ base = [id \in ParamIds |-> DefaultBase(id)]
    /\ audioOffset = [id \in ParamIds |-> 0]
    /\ lfo = [id \in LfoIds |-> 0]
    /\ paramMappings = DefaultMappingTable
    /\ frameBufferLength = DEFAULT_FRAME_BUFFER_LENGTH
    /\ frameCount = 0
    /\ currentFrameIndex = 0
    /\ pipeline = NoPass
    /\ pastFrames = [i \in 0 .. (DEFAULT_FRAME_BUFFER_LENGTH - 1) |-> -1]
    /\ pastFramesAllocated = [i \in 0 .. (DEFAULT_FRAME_BUFFER_LENGTH - 1) |-> FALSE]
    /\ audioEnabled = FALSE
    /\ fft = FALSE
    /\ audioInputInitialized = FALSE
    /\ audioInputLevel = 0
    /\ audioBuffer = [k \in 1 .. bufferSize |-> 0]
    /\ sensitivity = Unit
    /\ smoothing = (85 * Unit) \div 100
    /\ normalizationEnabled = TRUE
    /\ fftSpectrum = [bin \in Bins |-> 0]
    /\ fftSmoothed = [bin \in Bins |-> 0]
    /\ audioMutex = "free"
    /\ renderPc = "idle"
    /\ audioPc = "idle"
    /\ thread = "render"
    /\ ticks = 0
    /\ lastOp = Called("ParameterManager", 0, 0, FALSE)

\* ofApp::setup(): paramManager->setup()
Setup(xml) ==
    /\ phase = "constructed"
    /\ phase' = "running"
    /\ lastOp' = Called("setup", 0, 0, xml.exists)
    /\ setup(xml)
    /\ thread' = "render"
    /\ UNCHANGED <<videoVars, audioVars, settingsFile, focus, ticks, rt>>

\* a call of a method on the running store
Call(called, effect) ==
    /\ phase = "running"
    /\ lastOp' = called
    /\ effect
    /\ thread' = "render"
    /\ UNCHANGED <<phase, videoVars, audioVars, settingsFile, focus, ticks, rt>>

\* one render tick: ofApp::update() calls ParameterManager::update(), which
\* calls updatePLocks()
update ==
    /\ phase = "running"
    /\ ticks < MaxTicks
    /\ ticks' = ticks + 1
    /\ lastOp' = Called("updatePLocks", 0, 0, FALSE)
    /\ updatePLocks
    /\ thread' = "render"
    /\ UNCHANGED <<phase, videoVars, audioVars, settingsFile, focus, rt>>

\* the scenario is not running
RtIdle == [pc |-> "idle", track |-> 0, value |-> 0, advanceAfterLast |-> FALSE,
           seed |-> 0, written |-> 0, played |-> 0]

(* The sequencer: every P-Lock operation, in any order *)

Init ==
    /\ ConstructedStore
    /\ settingsFile = NoSettings
    /\ ConstructedAnalyzer
    /\ focus = "none"
    /\ rt = RtIdle

Next ==
    \/ \E xml \in SettingsFiles : Setup(xml)
    \/ Call(Called("startRecording", 0, 0, FALSE), startRecording)
    \/ Call(Called("stopRecording", 0, 0, FALSE), stopRecording)
    \/ \E enabled \in BOOLEAN :
          Call(Called("setRecordingEnabled", 0, 0, enabled), setRecordingEnabled(enabled))
    \/ Call(Called("clearAllLocks", 0, 0, FALSE), clearAllLocks)
    \/ update
    \/ Call(Called("resetToDefaults", 0, 0, FALSE), resetToDefaults)
    \/ \E i \in RecordIndices, v \in RecordValues :
          Call(Called("recordParameter", i, v, FALSE), recordParameter(i, v))

Spec == Init /\ [][Next]_vars

(* The parameters: the performer works one control, recording on or off *)

ParamInit ==
    /\ ConstructedStore
    /\ settingsFile = NoSettings
    /\ ConstructedAnalyzer
    /\ focus \in ParamIds
    /\ rt = RtIdle

ParamNext ==
    \/ \E xml \in SettingsFiles : Setup(xml)
    \/ Call(Called("startRecording", 0, 0, FALSE), startRecording)
    \/ Call(Called("stopRecording", 0, 0, FALSE), stopRecording)
    \/ update
    \/ \E v \in FloatValues, r \in BOOLEAN :
          focus = "lumakeyValue" /\ Call(Called("lumakeyValue", LUMAKEY_VALUE, v, r), setLumakeyValue(v, r))
    \/ \E v \in FloatValues, r \in BOOLEAN :
          focus = "mix" /\ Call(Called("mix", MIX, v, r), setMix(v, r))
    \/ \E v \in FloatValues, r \in BOOLEAN :
          focus = "hue" /\ Call(Called("hue", HUE, v, r), setHue(v, r))
    \/ \E v \in FloatValues, r \in BOOLEAN :
          focus = "saturation" /\ Call(Called("saturation", SATURATION, v, r), setSaturation(v, r))
    \/ \E v \in FloatValues, r \in BOOLEAN :
          focus = "brightness" /\ Call(Called("brightness", BRIGHTNESS, v, r), setBrightness(v, r))
    \/ \E v \in FloatValues, r \in BOOLEAN :
          focus = "temporalFilterMix" /\ Call(Called("temporalFilterMix", TEMPORAL_FILTER_MIX, v, r), setTemporalFilterMix(v, r))
    \/ \E v \in FloatValues, r \in BOOLEAN :
          focus = "temporalFilterResonance" /\ Call(Called("temporalFilterResonance", TEMPORAL_FILTER_RESONANCE, v, r), setTemporalFilterResonance(v, r))
    \/ \E v \in FloatValues, r \in BOOLEAN :
          focus = "sharpenAmount" /\ Call(Called("sharpenAmount", SHARPEN_AMOUNT, v, r), setSharpenAmount(v, r))
    \/ \E v \in FloatValues, r \in BOOLEAN :
          focus = "xDisplace" /\ Call(Called("xDisplace", X_DISPLACE, v, r), setXDisplace(v, r))
    \/ \E v \in FloatValues, r \in BOOLEAN :
          focus = "yDisplace" /\ Call(Called("yDisplace", Y_DISPLACE, v, r), setYDisplace(v, r))
    \/ \E v \in FloatValues, r \in BOOLEAN :
          focus = "zDisplace" /\ Call(Called("zDisplace", Z_DISPLACE, v, r), setZDisplace(v, r))
    \/ \E v \in FloatValues, r \in BOOLEAN :
          focus = "rotate" /\ Call(Called("rotate", ROTATE, v, r), setRotate(v, r))
    \/ \E v \in FloatValues, r \in BOOLEAN :
          focus = "hueModulation" /\ Call(Called("hueModulation", HUE_MODULATION, v, r), setHueModulation(v, r))
    \/ \E v \in FloatValues, r \in BOOLEAN :
          focus = "hueOffset" /\ Call(Called("hueOffset", HUE_OFFSET, v, r), setHueOffset(v, r))
    \/ \E v \in FloatValues, r \in BOOLEAN :
          focus = "hueLFO" /\ Call(Called("hueLFO", HUE_LFO, v, r), setHueLFO(v, r))
    \/ \E v \in DelayValues, r \in BOOLEAN :
          focus = "delayAmount" /\ Call(Called("delayAmount", DELAY_AMOUNT, v, r), setDelayAmount(v, r))
    \/ \E v \in FloatValues, r \in BOOLEAN :
          focus = "zFrequency" /\ Call(Called("zFrequency", UNUSED_16, v, r), setZFrequency(v, r))
    \/ \E v \in FloatValues, r \in BOOLEAN :
          focus = "xFrequency" /\ Call(Called("xFrequency", UNUSED_16, v, r), setXFrequency(v, r))
    \/ \E v \in FloatValues, r \in BOOLEAN :
          focus = "yFrequency" /\ Call(Called("yFrequency", UNUSED_16, v, r), setYFrequency(v, r))
    \/ \E o \in OffsetValues :
          focus = "lumakeyValue" /\ Call(Called("setAudioOffset", 0, o, FALSE), setAudioLumakeyValueOffset(o))
    \/ \E o \in OffsetValues :
          focus = "mix" /\ Call(Called("setAudioOffset", 0, o, FALSE), setAudioMixOffset(o))
    \/ \E o \in OffsetValues :
          focus = "hue" /\ Call(Called("setAudioOffset", 0, o, FALSE), setAudioHueOffset(o))
    \/ \E o \in OffsetValues :
          focus = "saturation" /\ Call(Called("setAudioOffset", 0, o, FALSE), setAudioSaturationOffset(o))
    \/ \E o \in OffsetValues :
          focus = "brightness" /\ Call(Called("setAudioOffset", 0, o, FALSE), setAudioBrightnessOffset(o))
    \/ \E o \in OffsetValues :
          focus = "temporalFilterMix" /\ Call(Called("setAudioOffset", 0, o, FALSE), setAudioTemporalFilterMixOffset(o))
    \/ \E o \in OffsetValues :
          focus = "temporalFilterResonance" /\ Call(Called("setAudioOffset", 0, o, FALSE), setAudioTemporalFilterResonanceOffset(o))
    \/ \E o \in OffsetValues :
          focus = "sharpenAmount" /\ Call(Called("setAudioOffset", 0, o, FALSE), setAudioSharpenAmountOffset(o))
    \/ \E o \in OffsetValues :
          focus = "xDisplace" /\ Call(Called("setAudioOffset", 0, o, FALSE), setAudioXDisplaceOffset(o))
    \/ \E o \in OffsetValues :
          focus = "yDisplace" /\ Call(Called("setAudioOffset", 0, o, FALSE), setAudioYDisplaceOffset(o))
    \/ \E o \in OffsetValues :
          focus = "zDisplace" /\ Call(Called("setAudioOffset", 0, o, FALSE), setAudioZDisplaceOffset(o))
    \/ \E o \in OffsetValues :
          focus = "rotate" /\ Call(Called("setAudioOffset", 0, o, FALSE), setAudioRotateOffset(o))
    \/ \E o \in OffsetValues :
          focus = "hueModulation" /\ Call(Called("setAudioOffset", 0, o, FALSE), setAudioHueModulationOffset(o))
    \/ \E o \in OffsetValues :
          focus = "hueOffset" /\ Call(Called("setAudioOffset", 0, o, FALSE), setAudioHueOffsetOffset(o))
    \/ \E o \in OffsetValues :
          focus = "hueLFO" /\ Call(Called("setAudioOffset", 0, o, FALSE), setAudioHueLFOOffset(o))
    \/ \E o \in DelayOffsets :
          focus = "delayAmount" /\ Call(Called("setAudioOffset", 0, o, FALSE), setAudioDelayAmountOffset(o))
    \/ \E o \in OffsetValues :
          focus = "zFrequency" /\ Call(Called("setAudioOffset", 0, o, FALSE), setAudioZFrequencyOffset(o))
    \/ \E o \in OffsetValues :
          focus = "xFrequency" /\ Call(Called("setAudioOffset", 0, o, FALSE), setAudioXFrequencyOffset(o))
    \/ \E o \in OffsetValues :
          focus = "yFrequency" /\ Call(Called("setAudioOffset", 0, o, FALSE), setAudioYFrequencyOffset(o))

ParamSpec == ParamInit /\ [][ParamNext]_vars

(* The modulation inputs: audio offsets and LFO values arrive for one      *)
(* target, recording on or off                                             *)

ModInit ==
    /\ ConstructedStore
    /\ settingsFile = NoSettings
    /\ ConstructedAnalyzer
    /\ focus \in ParamIds \cup LfoIds
    /\ rt = RtIdle

ModNext ==
    \/ \E xml \in SettingsFiles : Setup(xml)
    \/ Call(Called("startRecording", 0, 0, FALSE), startRecording)
    \/ Call(Called("stopRecording", 0, 0, FALSE), stopRecording)
    \/ update
    \/ \E o \in OffsetValues :
          focus = "lumakeyValue" /\ Call(Called("setAudioOffset", 0, o, FALSE), setAudioLumakeyValueOffset(o))
    \/ \E o \in OffsetValues :
          focus = "mix" /\ Call(Called("setAudioOffset", 0, o, FALSE), setAudioMixOffset(o))
    \/ \E o \in OffsetValues :
          focus = "hue" /\ Call(Called("setAudioOffset", 0, o, FALSE), setAudioHueOffset(o))
    \/ \E o \in OffsetValues :
          focus = "saturation" /\ Call(Called("setAudioOffset", 0, o, FALSE), setAudioSaturationOffset(o))
    \/ \E o \in OffsetValues :
          focus = "brightness" /\ Call(Called("setAudioOffset", 0, o, FALSE), setAudioBrightnessOffset(o))
    \/ \E o \in OffsetValues :
          focus = "temporalFilterMix" /\ Call(Called("setAudioOffset", 0, o, FALSE), setAudioTemporalFilterMixOffset(o))
    \/ \E o \in OffsetValues :
          focus = "temporalFilterResonance" /\ Call(Called("setAudioOffset", 0, o, FALSE), setAudioTemporalFilterResonanceOffset(o))
    \/ \E o \in OffsetValues :
          focus = "sharpenAmount" /\ Call(Called("setAudioOffset", 0, o, FALSE), setAudioSharpenAmountOffset(o))
    \/ \E o \in OffsetValues :
          focus = "xDisplace" /\ Call(Called("setAudioOffset", 0, o, FALSE), setAudioXDisplaceOffset(o))
    \/ \E o \in OffsetValues :
          focus = "yDisplace" /\ Call(Called("setAudioOffset", 0, o, FALSE), setAudioYDisplaceOffset(o))
    \/ \E o \in OffsetValues :
          focus = "zDisplace" /\ Call(Called("setAudioOffset", 0, o, FALSE), setAudioZDisplaceOffset(o))
    \/ \E o \in OffsetValues :
          focus = "rotate" /\ Call(Called("setAudioOffset", 0, o, FALSE), setAudioRotateOffset(o))
    \/ \E o \in OffsetValues :
          focus = "hueModulation" /\ Call(Called("setAudioOffset", 0, o, FALSE), setAudioHueModulationOffset(o))
    \/ \E o \in OffsetValues :
          focus = "hueOffset" /\ Call(Called("setAudioOffset", 0, o, FALSE), setAudioHueOffsetOffset(o))
    \/ \E o \in OffsetValues :
          focus = "hueLFO" /\ Call(Called("setAudioOffset", 0, o, FALSE), setAudioHueLFOOffset(o))
    \/ \E o \in DelayOffsets :
          focus = "delayAmount" /\ Call(Called("setAudioOffset", 0, o, FALSE), setAudioDelayAmountOffset(o))
    \/ \E o \in OffsetValues :
          focus = "zFrequency" /\ Call(Called("setAudioOffset", 0, o, FALSE), setAudioZFrequencyOffset(o))
    \/ \E o \in OffsetValues :
          focus = "xFrequency" /\ Call(Called("setAudioOffset", 0, o, FALSE), setAudioXFrequencyOffset(o))
    \/ \E o \in OffsetValues :
          focus = "yFrequency" /\ Call(Called("setAudioOffset", 0, o, FALSE), setAudioYFrequencyOffset(o))
    \/ \E v \in LfoValues :
          focus = "xLfoAmp" /\ Call(Called("setLfo", 0, v, FALSE), setXLfoAmp(v))
    \/ \E v \in LfoValues :
          focus = "xLfoRate" /\ Call(Called("setLfo", 0, v, FALSE), setXLfoRate(v))
    \/ \E v \in LfoValues :
          focus = "yLfoAmp" /\ Call(Called("setLfo", 0, v, FALSE), setYLfoAmp(v))
    \/ \E v \in LfoValues :
          focus = "yLfoRate" /\ Call(Called("setLfo", 0, v, FALSE), setYLfoRate(v))
    \/ \E v \in LfoValues :
          focus = "zLfoAmp" /\ Call(Called("setLfo", 0, v, FALSE), setZLfoAmp(v))
    \/ \E v \in LfoValues :
          focus = "zLfoRate" /\ Call(Called("setLfo", 0, v, FALSE), setZLfoRate(v))
    \/ \E v \in LfoValues :
          focus = "rotateLfoAmp" /\ Call(Called("setLfo", 0, v, FALSE), setRotateLfoAmp(v))
    \/ \E v \in LfoValues :
          focus = "rotateLfoRate" /\ Call(Called("setLfo", 0, v, FALSE), setRotateLfoRate(v))

ModSpec == ModInit /\ [][ModNext]_vars

(* The ring: the application loads the ring length at startup, then every *)
(* render tick may run the pipeline and increments the frame index, while  *)
(* the delay amount is set to any value                                    *)

\* a call of a VideoFeedbackManager method
VideoCall(called, effect) ==
    /\ phase = "running"
    /\ lastOp' = called
    /\ effect
    /\ UNCHANGED <<phase, recordingEnabled, currentStep, pLockValues,
                   pLockSmoothedValues, pLockSmoothFactor, base, audioOffset, lfo,
                   paramMappings, audioVars, settingsFile, focus, ticks, rt>>
    /\ thread' = "render"

\* ofApp::setup(): paramManager->setup(), videoManager->setup(), which
\* allocates the first min(5, frameBufferLength) slots, then
\* videoManager->loadFromXml(xml) if the settings file has a videoFeedback tag
AppSetup(xml, savedBufferLength) ==
    /\ phase = "constructed"
    /\ phase' = "running"
    /\ lastOp' = Called("setup", 0, savedBufferLength, xml.exists)
    /\ setup(xml)
    /\ pastFramesAllocated' =
          [i \in DOMAIN pastFramesAllocated |->
              i < (IF frameBufferLength < 5 THEN frameBufferLength ELSE 5)]
    /\ IF xml.exists
       THEN VideoLoadFromXml(savedBufferLength)
       ELSE UNCHANGED <<frameBufferLength, frameCount, currentFrameIndex, pipeline,
                       pastFrames>>
    /\ thread' = "render"
    /\ UNCHANGED <<audioVars, settingsFile, focus, ticks, rt>>

RingInit ==
    /\ ConstructedStore
    /\ settingsFile = NoSettings
    /\ ConstructedAnalyzer
    /\ focus = "delayAmount"
    /\ rt = RtIdle

RingNext ==
    \/ \E xml \in {NoFile, FileA}, n \in SavedLengths : AppSetup(xml, n)
    \/ \E v \in RingDelayValues :
          Call(Called("delayAmount", DELAY_AMOUNT, v, TRUE), setDelayAmount(v, TRUE))
    \/ VideoCall(Called("processMainPipeline", 0, 0, FALSE), processMainPipeline)
    \/ VideoCall(Called("incrementFrameIndex", 0, 0, FALSE), incrementFrameIndex)

RingSpec == RingInit /\ [][RingNext]_vars

(* The record/playback scenario: start recording, write the value on      *)
(* RtSteps consecutive steps with a tick after each write (after the last  *)
(* one only if advanceAfterLast), stop recording, play RtSteps ticks.      *)

RtCall(called, effect, next) ==
    /\ phase = "running"
    /\ lastOp' = called
    /\ effect
    /\ rt' = next
    /\ thread' = "render"
    /\ UNCHANGED <<phase, videoVars, audioVars, settingsFile, focus, ticks>>

RtStart ==
    /\ rt.pc = "start"
    /\ RtCall(Called("startRecording", 0, 0, FALSE), startRecording,
              [rt EXCEPT !.pc = "write", !.seed = pLockValues[rt.track][currentStep]])

RtWrite ==
    /\ rt.pc = "write"
    /\ RtCall(Called("recordParameter", rt.track, rt.value, FALSE),
              recordParameter(rt.track, rt.value),
              [rt EXCEPT !.written = rt.written + 1,
                         !.pc = IF rt.written + 1 = RtSteps /\ ~rt.advanceAfterLast
                                THEN "stop" ELSE "advance"])

RtAdvance ==
    /\ rt.pc = "advance"
    /\ RtCall(Called("updatePLocks", 0, 0, FALSE), updatePLocks,
              [rt EXCEPT !.pc = IF rt.written = RtSteps THEN "stop" ELSE "write"])

RtStop ==
    /\ rt.pc = "stop"
    /\ RtCall(Called("stopRecording", 0, 0, FALSE), stopRecording,
              [rt EXCEPT !.pc = "play"])

RtPlay ==
    /\ rt.pc = "play"
    /\ RtCall(Called("updatePLocks", 0, 0, FALSE), updatePLocks,
              [rt EXCEPT !.played = rt.played + 1,
                         !.pc = IF rt.played + 1 = RtSteps THEN "done" ELSE "play"])

RtInit ==
    /\ ConstructedStore
    /\ settingsFile = NoSettings
    /\ ConstructedAnalyzer
    /\ focus = "none"
    /\ RtSteps < P_LOCK_SIZE
    /\ rt \in [pc : {"start"}, track : RtTracks, value : RtValues,
               advanceAfterLast : BOOLEAN, seed : {0}, written : {0}, played : {0}]

RtNext ==
    \/ \E xml \in RtFiles : Setup(xml)
    \/ RtStart
    \/ RtWrite
    \/ RtAdvance
    \/ RtStop
    \/ RtPlay

RtSpec == RtInit /\ [][RtNext]_vars

----------------------------------------------------------------------------
(* Properties of the P-Lock sequencer (checked under Spec) *)

AllTracksAndSteps == Tracks \X Steps

\* C1: startRecording() sets record mode active and overwrites every step of
\* every track with the value the track held at the cursor before the call;
\* the cursor and the smoothed values do not change.
C1_StartRecordingSeeds ==
    [][lastOp'.op = "startRecording" =>
          /\ recordingEnabled'
          /\ \A c \in AllTracksAndSteps :
                pLockValues'[c[1]][c[2]] = pLockValues[c[1]][currentStep]
          /\ currentStep' = currentStep
          /\ pLockSmoothedValues' = pLockSmoothedValues]_vars

\* a second recording pass was started from step 1: the value recorded there
\* now fills the whole DELAY_AMOUNT track, beside the seeded settings tracks
C1_Witness ==
    /\ lastOp.op = "startRecording"
    /\ recordingEnabled
    /\ currentStep = 1
    /\ \A j \in Steps : pLockValues[DELAY_AMOUNT][j] = -300
    /\ \A j \in Steps : pLockValues[HUE][j] = -800

\* C2: updatePLocks() moves the cursor from s to (s + 1) mod P_LOCK_SIZE when
\* record mode is active and leaves it alone otherwise; whatever operation
\* runs, the one cursor stays within 0 .. P_LOCK_SIZE - 1.
C2_CursorAdvance ==
    [][/\ lastOp'.op = "updatePLocks" =>
             currentStep' = IF ~recordingEnabled THEN currentStep
                            ELSE IF currentStep = P_LOCK_SIZE - 1 THEN 0
                            ELSE currentStep + 1
       /\ currentStep' >= 0
       /\ currentStep' <= P_LOCK_SIZE - 1]_vars

\* the cursor wrapped: a value was recorded on the last step, and the tick
\* after it brought the cursor back to step 0
C2_Witness ==
    /\ lastOp.op = "updatePLocks"
    /\ recordingEnabled
    /\ currentStep = 0
    /\ pLockValues[DELAY_AMOUNT][P_LOCK_SIZE - 1] = -300
    /\ pLockValues[DELAY_AMOUNT][0] # -300

\* C3: recordParameter(paramIndex, value) writes value into the one cell
\* [paramIndex][currentStep] when record mode is active and paramIndex is a
\* track; otherwise it changes nothing.
C3_RecordParameter ==
    [][lastOp'.op = "recordParameter" =>
          /\ \A c \in AllTracksAndSteps :
                pLockValues'[c[1]][c[2]] =
                    IF /\ recordingEnabled
                       /\ lastOp'.index \in Tracks
                       /\ c = <<lastOp'.index, currentStep>>
                    THEN lastOp'.value
                    ELSE pLockValues[c[1]][c[2]]
          /\ UNCHANGED <<recordingEnabled, currentStep, pLockSmoothedValues,
                         pLockSmoothFactor, base, audioOffset, lfo, paramMappings>>]_vars

\* record mode is active, a value was recorded on some step of DELAY_AMOUNT
\* only, and the last call passed the index P_LOCK_NUMBER
C3_Witness ==
    /\ lastOp.op = "recordParameter"
    /\ lastOp.index = P_LOCK_NUMBER
    /\ recordingEnabled
    /\ \E j \in Steps : pLockValues[DELAY_AMOUNT][j] = -300
    /\ \E j \in Steps : pLockValues[DELAY_AMOUNT][j] # -300

\* C4: after updatePLocks() every track's smoothed value is
\* raw[step] * (1 - factor) + previous * factor, taken at the cursor before
\* the increment, and exactly 0 when that result is smaller than 0.01 in
\* magnitude; so no smoothed value is non-zero and below 0.01.
C4_SmoothingDeadband ==
    [][lastOp'.op = "updatePLocks" =>
          \A i \in Tracks :
             LET computed == FMul(pLockValues[i][currentStep], Unit - pLockSmoothFactor)
                               + FMul(pLockSmoothedValues[i], pLockSmoothFactor)
             IN  /\ pLockSmoothedValues'[i] =
                       IF computed > -DeadbandThreshold /\ computed < DeadbandThreshold
                       THEN 0 ELSE computed
                 /\ \/ pLockSmoothedValues'[i] = 0
                    \/ pLockSmoothedValues'[i] >= DeadbandThreshold
                    \/ pLockSmoothedValues'[i] <= -DeadbandThreshold]_vars

\* with factor 0.5, a tick left a track whose raw value at the cursor is not
\* zero at exactly 0, while another track plays a negative value
C4_Witness ==
    /\ lastOp.op = "updatePLocks"
    /\ pLockSmoothFactor = 500
    /\ \E i \in Tracks : pLockValues[i][currentStep] = 5 /\ pLockSmoothedValues[i] = 0
    /\ \E i \in Tracks : pLockSmoothedValues[i] < 0

\* C6: stopRecording() clears the record-mode flag and nothing else: the
\* raw values, the smoothed values and the cursor are what they were.
C6_StopRecordingFrame ==
    [][lastOp'.op = "stopRecording" =>
          /\ ~recordingEnabled'
          /\ UNCHANGED <<pLockValues, pLockSmoothedValues, currentStep,
                         pLockSmoothFactor, base, audioOffset, lfo, paramMappings>>]_vars

\* recording was stopped away from step 0 with recorded and smoothed content
C6_Witness ==
    /\ lastOp.op = "stopRecording"
    /\ ~recordingEnabled
    /\ currentStep > 0
    /\ \E j \in Steps : pLockValues[DELAY_AMOUNT][j] = -300
    /\ \E i \in Tracks : pLockSmoothedValues[i] # 0

\* C7: clearAllLocks() sets every raw value and every smoothed value to 0
\* and leaves the cursor and the record-mode flag alone.
C7_ClearAllLocks ==
    [][lastOp'.op = "clearAllLocks" =>
          /\ \A c \in AllTracksAndSteps : pLockValues'[c[1]][c[2]] = 0
          /\ \A i \in Tracks : pLockSmoothedValues'[i] = 0
          /\ UNCHANGED <<currentStep, recordingEnabled>>]_vars

\* the locks were cleared while recording, away from step 0
C7_Witness ==
    /\ lastOp.op = "clearAllLocks"
    /\ recordingEnabled
    /\ currentStep > 0
    /\ ticks > 0

\* C8: getPLockValue(paramIndex) is the track's smoothed value for
\* 0 <= paramIndex < P_LOCK_NUMBER and 0 for every other index.
C8_GetPLockValue ==
    \A paramIndex \in -2 .. (P_LOCK_NUMBER + 1) :
        getPLockValue(paramIndex) =
            IF paramIndex \in Tracks THEN pLockSmoothedValues[paramIndex] ELSE 0

\* a track plays a non-zero value that differs from its raw value at the
\* cursor; the indices -1 and P_LOCK_NUMBER read 0
C8_Witness ==
    /\ \E i \in Tracks :
          /\ getPLockValue(i) # 0
          /\ getPLockValue(i) # pLockValues[i][currentStep]
    /\ getPLockValue(-1) = 0
    /\ getPLockValue(P_LOCK_NUMBER) = 0

----------------------------------------------------------------------------
(* The record/playback round trip (checked under RtSpec) *)

\* the scenario as stated: a tick follows every one of the writes, the last
\* one included, and the track then reads the written value
C5_AsStated ==
    (rt.pc = "done" /\ rt.advanceAfterLast) => getPLockValue(rt.track) = rt.value

\* C5: record/playback round trip with smoothing factor 0: after
\* startRecording, a value v (|v| >= 0.01) written on consecutive steps,
\* stopRecording and further ticks, the track reads v when recording stopped
\* with the cursor on the last written step (a tick between the writes only);
\* when a tick followed the last write too, the cursor rests one step past
\* the written ones and the track reads the value it was seeded with when
\* recording started (0 if that is below 0.01 in magnitude).
C5_RoundTrip ==
    rt.pc = "done" =>
        /\ pLockSmoothFactor = 0
        /\ getPLockValue(rt.track) =
              IF ~rt.advanceAfterLast THEN rt.value
              ELSE IF rt.seed > -DeadbandThreshold /\ rt.seed < DeadbandThreshold
                   THEN 0 ELSE rt.seed
        /\ currentStep = IF rt.advanceAfterLast THEN RtSteps ELSE RtSteps - 1

\* the scenario ended on the last written step: the track was seeded with
\* 0.3 and reads the written 0.01
C5_Witness ==
    /\ rt.pc = "done"
    /\ ~rt.advanceAfterLast
    /\ rt.written = RtSteps
    /\ rt.played = RtSteps
    /\ rt.seed = 300
    /\ rt.value = 10
    /\ getPLockValue(rt.track) = 10
    /\ ~recordingEnabled

----------------------------------------------------------------------------
(* Properties of the parameters (checked under ParamSpec) *)

\* the setters as stated: whenever record mode is active the written value
\* itself goes to the parameter's track
C9_AsStated ==
    [][lastOp'.op \in AutomatableIds =>
          /\ base' = [base EXCEPT ![lastOp'.op] = lastOp'.value]
          /\ pLockValues' =
                IF recordingEnabled
                THEN [pLockValues EXCEPT
                         ![TrackOf(lastOp'.op)][currentStep] = lastOp'.value]
                ELSE pLockValues
          /\ UNCHANGED <<audioOffset, recordingEnabled, currentStep,
                         pLockSmoothedValues, pLockSmoothFactor>>]_vars

\* C9: every base-value setter of an automatable parameter writes only that
\* parameter's base value and, if record mode is active and the call is
\* recordable (the default), records on the parameter's own track, at the
\* cursor, the written value; setDelayAmount records the written value
\* divided by P_LOCK_SIZE - 1 instead.  A call with recordable = false
\* records nothing.  Audio offsets, other bases, other cells, the cursor and
\* the smoothed values never change.
C9_SettersWriteBase ==
    [][lastOp'.op \in AutomatableIds =>
          /\ \A id \in ParamIds :
                base'[id] = IF id = lastOp'.op THEN lastOp'.value ELSE base[id]
          /\ \A c \in AllTracksAndSteps :
                pLockValues'[c[1]][c[2]] =
                    IF /\ recordingEnabled
                       /\ lastOp'.flag
                       /\ c = <<TrackOf(lastOp'.op), currentStep>>
                    THEN IF lastOp'.op = "delayAmount"
                         THEN (2 * lastOp'.value * Unit + (P_LOCK_SIZE - 1))
                                  \div (2 * (P_LOCK_SIZE - 1))
                         ELSE lastOp'.value
                    ELSE pLockValues[c[1]][c[2]]
          /\ UNCHANGED <<audioOffset, recordingEnabled, currentStep,
                         pLockSmoothedValues, pLockSmoothFactor>>]_vars

\* while recording, away from step 0, setDelayAmount(1) was called: the base
\* is 1 frame and the cell holds 1 / (P_LOCK_SIZE - 1)
C9_Witness ==
    /\ lastOp.op = "delayAmount"
    /\ lastOp.flag
    /\ recordingEnabled
    /\ currentStep > 0
    /\ base["delayAmount"] = 1
    /\ pLockValues[DELAY_AMOUNT][currentStep] * (P_LOCK_SIZE - 1) = Unit
    /\ pLockValues[DELAY_AMOUNT][0] # pLockValues[DELAY_AMOUNT][currentStep]

\* C10: the getter of every additive automatable parameter returns
\* base + audio offset + the smoothed automation value of its own track.
C10_AdditiveGetters ==
    /\ getLumakeyValue = base["lumakeyValue"] + audioOffset["lumakeyValue"]
                           + pLockSmoothedValues[LUMAKEY_VALUE]
    /\ getMix = base["mix"] + audioOffset["mix"] + pLockSmoothedValues[MIX]
    /\ getTemporalFilterMix =
          base["temporalFilterMix"] + audioOffset["temporalFilterMix"]
             + pLockSmoothedValues[TEMPORAL_FILTER_MIX]
    /\ getTemporalFilterResonance =
          base["temporalFilterResonance"] + audioOffset["temporalFilterResonance"]
             + pLockSmoothedValues[TEMPORAL_FILTER_RESONANCE]
    /\ getSharpenAmount = base["sharpenAmount"] + audioOffset["sharpenAmount"]
                            + pLockSmoothedValues[SHARPEN_AMOUNT]
    /\ getXDisplace = base["xDisplace"] + audioOffset["xDisplace"]
                        + pLockSmoothedValues[X_DISPLACE]
    /\ getYDisplace = base["yDisplace"] + audioOffset["yDisplace"]
                        + pLockSmoothedValues[Y_DISPLACE]
    /\ getRotate = base["rotate"] + audioOffset["rotate"] + pLockSmoothedValues[ROTATE]
    /\ getHueOffset = base["hueOffset"] + audioOffset["hueOffset"]
                        + pLockSmoothedValues[HUE_OFFSET]
    /\ getHueLFO = base["hueLFO"] + audioOffset["hueLFO"] + pLockSmoothedValues[HUE_LFO]

\* rotate has all three terms: base 0.8, audio offset 0.1 and automation
\* playing 0.3, so the getter returns 1.2
C10_Witness ==
    /\ base["rotate"] = 800
    /\ audioOffset["rotate"] = 100
    /\ pLockSmoothedValues[ROTATE] = 300
    /\ getRotate = 1200
    /\ pLockSmoothedValues[HUE_LFO] # pLockSmoothedValues[HUE_OFFSET]

\* the float product p * q, for p and q in fixed point, is the value r:
\* r is the fixed-point number nearest to p * q / Unit
IsProduct(r, p, q) == 2 * Abs(r * Unit - p * q) <= Unit

\* C11: for hue, saturation, brightness and zDisplace the getter returns
\* (base + audio offset) * (1 + automation); for hueModulation it returns
\* (base + audio offset) * (1 - automation).
C11_MultiplicativeGetters ==
    /\ IsProduct(getHue, base["hue"] + audioOffset["hue"],
                 Unit + pLockSmoothedValues[HUE])
    /\ IsProduct(getSaturation, base["saturation"] + audioOffset["saturation"],
                 Unit + pLockSmoothedValues[SATURATION])
    /\ IsProduct(getBrightness, base["brightness"] + audioOffset["brightness"],
                 Unit + pLockSmoothedValues[BRIGHTNESS])
    /\ IsProduct(getZDisplace, base["zDisplace"] + audioOffset["zDisplace"],
                 Unit + pLockSmoothedValues[Z_DISPLACE])
    /\ IsProduct(getHueModulation, base["hueModulation"] + audioOffset["hueModulation"],
                 Unit - pLockSmoothedValues[HUE_MODULATION])

\* hueModulation has base 0.8, audio offset 0.1 and the recorded automation
\* 0.8, so it reads 0.9 * 0.2 = 0.18, while saturation (base 1.0) under
\* automation 0.3 reads 1.3
C11_Witness ==
    /\ base["hueModulation"] = 800
    /\ audioOffset["hueModulation"] = 100
    /\ pLockSmoothedValues[HUE_MODULATION] = 800
    /\ getHueModulation = 180
    /\ pLockSmoothedValues[SATURATION] = 300
    /\ getSaturation = 1300

\* C12: the delay-amount getter returns
\* base + audio offset + round(automation * (P_LOCK_SIZE - 1)), the automation
\* term rounded to the nearest integer.
C12_DelayRounded ==
    getDelayAmount =
        base["delayAmount"] + audioOffset["delayAmount"]
            + RDiv(pLockSmoothedValues[DELAY_AMOUNT] * (P_LOCK_SIZE - 1), Unit)

----------------------------------------------------------------------------
(* Properties of the modulation inputs (checked under ModSpec) *)

\* C13: an audio-offset setter changes only its own audio offset and an LFO
\* amplitude or rate setter only its own LFO value; neither writes a raw or
\* smoothed automation value or moves the cursor, recording or not.
C13_ModulationNotRecorded ==
    [][/\ lastOp'.op = "setAudioOffset" =>
             /\ \A id \in ParamIds :
                   audioOffset'[id] = IF id = focus THEN lastOp'.value
                                      ELSE audioOffset[id]
             /\ UNCHANGED <<pLockValues, pLockSmoothedValues, currentStep,
                            recordingEnabled, pLockSmoothFactor, base, lfo, paramMappings>>
       /\ lastOp'.op = "setLfo" =>
             /\ \A id \in LfoIds :
                   lfo'[id] = IF id = focus THEN lastOp'.value ELSE lfo[id]
             /\ UNCHANGED <<pLockValues, pLockSmoothedValues, currentStep,
                            recordingEnabled, pLockSmoothFactor, base,
                            audioOffset>>]_vars

\* while recording, away from step 0 and with automation playing, the
\* rotate LFO amplitude was set to 0.8
C13_Witness ==
    /\ lastOp.op = "setLfo"
    /\ recordingEnabled
    /\ currentStep > 0
    /\ lfo["rotateLfoAmp"] = 800
    /\ \E i \in Tracks : pLockSmoothedValues[i] # 0

----------------------------------------------------------------------------
(* Properties of the ring of past frames (checked under RingSpec) *)

\* C14: ring arithmetic: for every ring length N >= 1, every tick and every
\* value getDelayAmount() returns (negative values and values >= N are
\* clamped to 0 .. N - 1), the feedback index, the temporal index and the
\* store index a pass of the pipeline computes lie in 0 .. N - 1; the store
\* index equals the temporal index; and with effective delay 0 the feedback
\* index is the current frame index.
C14_RingArithmetic ==
    [][lastOp'.op = "processMainPipeline" =>
          /\ frameBufferLength >= 1
          /\ pipeline'.delayAmount >= 0
          /\ pipeline'.delayAmount <= frameBufferLength - 1
          /\ pipeline'.delayAmount =
                IF getDelayAmount < 0 THEN 0
                ELSE IF getDelayAmount > frameBufferLength - 1
                     THEN frameBufferLength - 1 ELSE getDelayAmount
          /\ pipeline'.delayIndex \in 0 .. (frameBufferLength - 1)
          /\ pipeline'.temporalIndex \in 0 .. (frameBufferLength - 1)
          /\ pipeline'.storeIndex \in 0 .. (frameBufferLength - 1)
          /\ pipeline'.storeIndex = pipeline'.temporalIndex
          /\ pipeline'.delayAmount = 0 => pipeline'.delayIndex = currentFrameIndex]_vars

\* on a ring of length 2 loaded from the settings, at frame index 1, a pass
\* ran with the delay 5 clamped to 1; the three indices are in the ring
C14_Witness ==
    /\ lastOp.op = "processMainPipeline"
    /\ frameBufferLength = 2
    /\ frameCount = 1
    /\ currentFrameIndex = 1
    /\ pipeline.returned > frameBufferLength
    /\ pipeline.delayAmount = 1
    /\ pipeline.delayIndex = 0
    /\ pipeline.storeIndex = 0

----------------------------------------------------------------------------
(* The band mappings: the band energies and the mapping list are drawn at  *)
(* construction, then the render thread applies the mappings               *)

EnergyValues == {0, 250, 500, 1500}
MappingBands == {0, numBands}
MappingParamIds == {"rotate", "z_displace", "zDisplace", "delay_amount", "noSuchParameter"}
MappingScales == {500, 1000}
MappingRanges == {<<-200, 200>>, <<0, 1000>>}

BandMapping(band, paramId, scale, min, max, additive) ==
    [band |-> band, paramId |-> paramId, scale |-> scale,
     min |-> min, max |-> max, additive |-> additive]

MappingLists ==
    { <<BandMapping(b, id, s, r[1], r[2], a)>> :
        b \in MappingBands, id \in MappingParamIds, s \in MappingScales,
        r \in MappingRanges, a \in BOOLEAN }

\* two mappings, onto one parameter (by the same id or by its alias) or onto
\* two, each with a band in or out of range
MappingPairs ==
    { <<BandMapping(b1, id1, 500, -200, 200, FALSE),
        BandMapping(b2, id2, Unit, 0, Unit, a)>> :
        b1 \in MappingBands, b2 \in MappingBands,
        id1 \in {"z_displace", "rotate"},
        id2 \in {"zDisplace", "rotate", "noSuchParameter"}, a \in BOOLEAN }

BandArguments == {-1, 0, numBands - 1, numBands}
MappingIndices == {-1, 0, 1, 2}

\* a call of an AudioReactivityManager method on the render thread
AnalyzerCall(called, effect) ==
    /\ phase = "running"
    /\ lastOp' = called
    /\ thread' = "render"
    /\ effect
    /\ UNCHANGED <<phase, recordingEnabled, currentStep, pLockValues,
                   pLockSmoothedValues, pLockSmoothFactor, base, audioOffset, lfo,
                   paramMappings, videoVars, audioMutex, renderPc, audioPc, settingsFile, focus, ticks, rt>>

MapInit ==
    /\ ConstructedStore
    /\ settingsFile = NoSettings
    /\ smoothedBands \in {[b \in Bands |-> e] : e \in EnergyValues}
    /\ mappings \in MappingLists \cup MappingPairs
    /\ focus = "rotate"
    /\ rt = RtIdle

MapNext ==
    \/ Setup(NoFile)
    \/ Call(Called("applyMappings", 0, 0, FALSE), applyMappings)
    \/ \E band \in BandArguments :
          Call(Called("getBand", band, getBand(band), FALSE),
               UNCHANGED <<recordingEnabled, currentStep, pLockValues,
                           pLockSmoothedValues, pLockSmoothFactor, base,
                           audioOffset, lfo, paramMappings>>)
    \/ \E index \in MappingIndices :
          AnalyzerCall(Called("removeMapping", index, Len(mappings), FALSE),
                       removeMapping(index))

MapSpec == MapInit /\ [][MapNext]_vars

\* mapping i of the list is applied and no later mapping overwrites its target
\* (a float parameter)
Decides(i) ==
    /\ mappings[i].band \in Bands
    /\ TargetOf(mappings[i].paramId) \notin {"", "delayAmount"}
    /\ \A j \in (i + 1) .. Len(mappings) :
          mappings[j].band \in Bands
             => TargetOf(mappings[j].paramId) /= TargetOf(mappings[i].paramId)

\* r is the float nearest to the exact value raw / Unit^2 clamped to
\* [min, max], up to the rounding of the two float products
IsClamped(r, raw, min, max) ==
    Abs(r * Unit * Unit - ofClamp(raw, min * Unit * Unit, max * Unit * Unit))
        <= Unit * Unit

\* C19 as stated: in direct mode the written offset is
\* min + energy * (max - min) clamped to [min, max], whatever the scale
C19_AsStated ==
    [][lastOp'.op = "applyMappings" =>
          \A i \in 1 .. Len(mappings) :
             LET m == mappings[i] IN
             (Decides(i) /\ ~m.additive) =>
                IsClamped(audioOffset'[TargetOf(m.paramId)],
                          m.min * Unit * Unit
                             + smoothedBands[m.band] * Unit * (m.max - m.min),
                          m.min, m.max)]_vars

\* C19 (amended): in direct mode the offset written to a float parameter is
\* min + energy * scale * (max - min) clamped to [min, max]: the scale
\* multiplies the energy
C19_DirectMode ==
    [][lastOp'.op = "applyMappings" =>
          \A i \in 1 .. Len(mappings) :
             LET m == mappings[i] IN
             (Decides(i) /\ ~m.additive) =>
                IsClamped(audioOffset'[TargetOf(m.paramId)],
                          m.min * Unit * Unit
                             + smoothedBands[m.band] * m.scale * (m.max - m.min),
                          m.min, m.max)]_vars

\* a direct mapping of scale 0.5 onto [-0.2, 0.2] was applied to the energy
\* 0.5: the offset is -0.2 + 0.5 * 0.5 * 0.4 = -0.1, not 0
C19_Witness ==
    /\ lastOp.op = "applyMappings"
    /\ mappings = <<BandMapping(0, "rotate", 500, -200, 200, FALSE)>>
    /\ smoothedBands[0] = 500
    /\ audioOffset["rotate"] = -100

----------------------------------------------------------------------------
(* The threads.  The render thread runs ofApp::update() (the P-Lock tick,  *)
(* then AudioReactivityManager::update()), the debug display and exit();   *)
(* the audio device thread runs audioIn(); the MIDI input thread runs      *)
(* newMidiMessage().  A std::lock_guard blocks until audioMutex is free.   *)


\* the member variables of ParameterManager
storeVars == <<recordingEnabled, currentStep, pLockValues, pLockSmoothedValues,
               pLockSmoothFactor, base, audioOffset, lfo, paramMappings>>

\* addDefaultMappings()
DefaultMappings ==
    << BandMapping(0, "z_displace", 500, -200, 200, FALSE),
       BandMapping(2, "x_displace", 50, -100, 100, FALSE),
       BandMapping(3, "y_displace", 500, -100, 100, FALSE),
       BandMapping(4, "hue", 10, 800, 1200, FALSE),
       BandMapping(5, "rotate", 50, -50, 50, TRUE),
       BandMapping(6, "saturation", 500, 500, 1500, FALSE),
       BandMapping(7, "brightness", 500, 500, 1500, FALSE),
       BandMapping(3, "sharpenAmount", 200, 0, 200, FALSE) >>

\* groupBands(): smoothedBands[i] = average * (1 - smoothing) + smoothedBands[i] * smoothing
SmoothedBand(average, previous) ==
    FMul(average, Unit - smoothing) + FMul(previous, smoothing)

\* a step of the render thread from one position of its tick to the next
RenderStep(called, from, to, effect) ==
    /\ phase = "running"
    /\ renderPc = from
    /\ renderPc' = to
    /\ lastOp' = called
    /\ thread' = "render"
    /\ effect
    /\ UNCHANGED <<phase, videoVars, audioPc, settingsFile, focus, rt>>

\* ofApp::setup(): paramManager->setup(), audioManager->setup() creates the
\* fft; with a settings file audioManager->loadFromXml() reads enabled, adds
\* the default mappings to an empty list and opens the stream if enabled
ThreadSetup(loaded, on) ==
    /\ phase = "constructed"
    /\ phase' = "running"
    /\ lastOp' = Called("setup", 0, 0, loaded)
    /\ thread' = "render"
    /\ setup(NoFile)
    /\ fft' = TRUE
    /\ audioEnabled' = (loaded /\ on)
    /\ audioInputInitialized' = (loaded /\ on)
    /\ mappings' = IF loaded THEN DefaultMappings ELSE mappings
    /\ UNCHANGED <<videoVars, smoothedBands, audioInputLevel, audioMutex,
                   renderPc, audioPc, settingsFile, focus, ticks, rt, spectrumVars, settingVars>>

\* setEnabled(enabled): setupAudioInput() or closeAudioInput()
setEnabled(on) ==
    /\ audioEnabled' = on
    /\ audioInputInitialized' = on
    /\ UNCHANGED <<storeVars, fft, smoothedBands, mappings, audioInputLevel,
                   audioMutex, ticks, spectrumVars, settingVars>>

\* ofApp::update(): paramManager->update()
RenderUpdate ==
    /\ ticks < MaxTicks
    /\ ticks' = ticks + 1
    /\ updatePLocks
    /\ UNCHANGED <<audioEnabled, fft, audioInputInitialized, smoothedBands,
                   mappings, audioInputLevel, audioMutex, spectrumVars, settingVars>>

\* AudioReactivityManager::update(): if (!enabled || !paramManager || !fft) return
updateReturn ==
    /\ ~audioEnabled \/ ~fft
    /\ UNCHANGED <<storeVars, audioEnabled, fft, audioInputInitialized,
                   smoothedBands, mappings, audioInputLevel, audioMutex, ticks, spectrumVars, settingVars>>

\* AudioReactivityManager::update(): the lock_guard of the analysis block
updateLock ==
    /\ audioEnabled /\ fft
    /\ audioMutex = "free"
    /\ audioMutex' = "render"
    /\ UNCHANGED <<storeVars, audioEnabled, fft, audioInputInitialized,
                   smoothedBands, mappings, audioInputLevel, ticks, spectrumVars, settingVars>>

\* mutant: the lock is still held when the block is left
updateAnalysis_KeepLock(average) ==
    /\ smoothedBands' = [b \in Bands |-> SmoothedBand(average, smoothedBands[b])]
    /\ UNCHANGED <<storeVars, audioEnabled, fft, audioInputInitialized,
                   mappings, audioInputLevel, audioMutex, ticks, spectrumVars, settingVars>>

\* AudioReactivityManager::update(): analyzeAudio() and groupBands() under the
\* lock, which the end of the block releases; average is the mean magnitude
\* of a band's bins
updateAnalysis(average) ==
    /\ smoothedBands' = [b \in Bands |-> SmoothedBand(average, smoothedBands[b])]
    /\ audioMutex' = "free"
    /\ UNCHANGED <<storeVars, audioEnabled, fft, audioInputInitialized,
                   mappings, audioInputLevel, ticks, spectrumVars, settingVars>>

\* AudioReactivityManager::update(): applyMappings()
updateMappings ==
    /\ applyMappings
    /\ UNCHANGED <<audioEnabled, fft, audioInputInitialized, smoothedBands,
                   mappings, audioInputLevel, audioMutex, ticks, spectrumVars, settingVars>>

\* getAudioInputLevel(): return audioInputLevel, without the lock; a read
\* that races with the write in audioIn() returns any value
getAudioInputLevel(level) ==
    /\ IF audioPc = "audioIn" THEN TRUE ELSE level = audioInputLevel
    /\ UNCHANGED <<storeVars, audioEnabled, fft, audioInputInitialized,
                   smoothedBands, mappings, audioInputLevel, audioMutex, ticks, spectrumVars, settingVars>>

\* exit(): closeAudioInput(), then ofSleepMillis(100)
exitClose ==
    /\ audioInputInitialized' = FALSE
    /\ UNCHANGED <<storeVars, audioEnabled, fft, smoothedBands, mappings,
                   audioInputLevel, audioMutex, ticks, spectrumVars, settingVars>>

\* exit(): the lock_guard
exitLock ==
    /\ audioMutex = "free"
    /\ audioMutex' = "render"
    /\ UNCHANGED <<storeVars, audioEnabled, fft, audioInputInitialized,
                   smoothedBands, mappings, audioInputLevel, ticks, spectrumVars, settingVars>>

\* exit(): fft.reset() under the lock, released on return
exitReset ==
    /\ phase = "running"
    /\ renderPc = "exitReset"
    /\ phase' = "exited"
    /\ renderPc' = "idle"
    /\ lastOp' = Called("fft.reset", 0, 0, audioMutex = "render")
    /\ thread' = "render"
    /\ fft' = FALSE
    /\ audioMutex' = "free"
    /\ UNCHANGED <<storeVars, videoVars, audioEnabled, audioInputInitialized,
                   smoothedBands, mappings, audioInputLevel, audioPc, settingsFile, focus,
                   ticks, rt, spectrumVars, settingVars>>

\* mutant: the callback does not wait for the lock
audioIn_NoLock ==
    /\ audioInputInitialized
    /\ audioPc = "idle"
    /\ audioPc' = "audioIn"
    /\ audioMutex' = "audio"
    /\ lastOp' = Called("audioIn", 0, 0, FALSE)
    /\ thread' = "audio"
    /\ UNCHANGED <<phase, storeVars, videoVars, audioEnabled, fft,
                   audioInputInitialized, smoothedBands, mappings,
                   audioInputLevel, renderPc, settingsFile, focus, ticks, rt, spectrumVars, settingVars>>

\* audioIn(): the sound stream calls it on the audio device thread; the
\* lock_guard at its top
audioIn ==
    /\ audioInputInitialized
    /\ audioPc = "idle"
    /\ audioMutex = "free"
    /\ audioPc' = "audioIn"
    /\ audioMutex' = "audio"
    /\ lastOp' = Called("audioIn", 0, 0, FALSE)
    /\ thread' = "audio"
    /\ UNCHANGED <<phase, storeVars, videoVars, audioEnabled, fft,
                   audioInputInitialized, smoothedBands, mappings,
                   audioInputLevel, renderPc, settingsFile, focus, ticks, rt, spectrumVars, settingVars>>

\* audioIn(): the body (sanitised copy, RMS into audioInputLevel,
\* fft->setSignal) under the lock, released on return
audioInBody(level) ==
    /\ audioPc = "audioIn"
    /\ audioPc' = "idle"
    /\ audioInputLevel' = level
    /\ audioMutex' = "free"
    /\ lastOp' = Called("audioInputLevel", 0, level, TRUE)
    /\ thread' = "audio"
    /\ UNCHANGED <<phase, storeVars, videoVars, audioEnabled, fft,
                   audioInputInitialized, smoothedBands, mappings,
                   renderPc, settingsFile, focus, ticks, rt, spectrumVars, settingVars>>

\* processControlChange(message): the toggles of the switch on message.control
processControlChange(control, value) ==
    CASE control = 55 /\ value = 127 ->
            lastOp' = Called("startRecording", 0, 0, FALSE) /\ startRecording
      [] control = 55 /\ value = 0 ->
            lastOp' = Called("stopRecording", 0, 0, FALSE) /\ stopRecording
      [] control = 39 /\ value = 127 ->
            lastOp' = Called("setRecordingEnabled", 0, 0, FALSE)
               /\ setRecordingEnabled(FALSE)
      [] control = 39 /\ value = 0 ->
            lastOp' = Called("setRecordingEnabled", 0, 0, TRUE)
               /\ setRecordingEnabled(TRUE)
      [] control = 59 /\ value = 127 ->
            lastOp' = Called("resetToDefaults", 0, 0, FALSE) /\ resetToDefaults
      [] OTHER ->
            lastOp' = Called("processControlChange", control, value, FALSE)
               /\ UNCHANGED storeVars

\* newMidiMessage(message) with a control change: the MIDI input thread calls
\* the listener, which calls processControlChange(message) at once
newMidiMessage(control, value) ==
    /\ phase = "running"
    /\ thread' = "midi"
    /\ processControlChange(control, value)
    /\ UNCHANGED <<phase, videoVars, audioVars, settingsFile, focus, ticks, rt>>

BandAverages == {0, Unit}
LevelValues == {0, 500}
MidiControls == {39, 55, 59}
MidiValues == {0, 64, 127}

ThreadInit ==
    /\ ConstructedStore
    /\ settingsFile = NoSettings
    /\ ConstructedAnalyzer
    /\ focus = "mix"
    /\ rt = RtIdle

ThreadNext ==
    \/ \E loaded \in BOOLEAN, on \in BOOLEAN : ThreadSetup(loaded, on)
    \/ \E on \in BOOLEAN :
          RenderStep(Called("setEnabled", 0, 0, on), "idle", "idle", setEnabled(on))
    \/ RenderStep(Called("updatePLocks", 0, 0, FALSE), "idle", "update", RenderUpdate)
    \/ RenderStep(Called("update", 0, 0, FALSE), "update", "idle", updateReturn)
    \/ RenderStep(Called("lock_guard", 0, 0, FALSE), "update", "analysis", updateLock)
    \/ \E average \in BandAverages :
          RenderStep(Called("groupBands", 0, average, TRUE),
                     "analysis", "mappings", updateAnalysis(average))
    \/ RenderStep(Called("applyMappings", 0, 0, FALSE), "mappings", "idle", updateMappings)
    \/ \E level \in LevelValues :
          RenderStep(Called("getAudioInputLevel", 0, level, audioMutex = "render"),
                     "idle", "idle", getAudioInputLevel(level))
    \/ RenderStep(Called("closeAudioInput", 0, 0, FALSE), "idle", "exitLock", exitClose)
    \/ RenderStep(Called("lock_guard", 0, 0, FALSE), "exitLock", "exitReset", exitLock)
    \/ exitReset
    \/ audioIn
    \/ \E level \in LevelValues : audioInBody(level)
    \/ \E control \in MidiControls, value \in MidiValues : newMidiMessage(control, value)

ThreadSpec == ThreadInit /\ [][ThreadNext]_vars

\* C15: in the render update the analyzer lock is held only during the
\* analysis block (FFT magnitudes and band energies); it is released before
\* the mappings are applied, so the render thread never calls an audio-offset
\* setter while it holds the lock
C15_MappingsOutsideLock ==
    [][/\ (audioMutex' = "render" /\ phase' = "running")
             => renderPc' \in {"analysis", "exitReset"}
       /\ lastOp'.op = "applyMappings"
             => (audioMutex /= "render" /\ audioMutex' /= "render")
       /\ (thread' = "render" /\ audioOffset' /= audioOffset)
             => audioMutex /= "render"]_vars

\* the mappings were applied and wrote an offset while the audio thread was
\* inside audioIn(), holding the lock the render thread had released
C15_Witness ==
    /\ lastOp.op = "applyMappings"
    /\ thread = "render"
    /\ audioMutex = "audio"
    /\ audioPc = "audioIn"
    /\ audioOffset["zDisplace"] /= 0

\* C16: the body of audioIn() and the render thread's analysis block never
\* execute at the same time: each runs only while its thread holds
\* audioMutex, which has one holder
C16_MutualExclusion ==
    /\ ~(audioPc = "audioIn" /\ renderPc = "analysis")
    /\ audioPc = "audioIn" => audioMutex = "audio"
    /\ renderPc = "analysis" => audioMutex = "render"

\* the render thread has reached the analysis block of update() and waits
\* for the lock while the audio thread is inside audioIn()
C16_Witness ==
    /\ audioPc = "audioIn"
    /\ audioMutex = "audio"
    /\ renderPc = "update"
    /\ audioEnabled /\ fft

\* the methods of the parameter store and the sequencer that the claim lists
StoreOperations ==
    {"startRecording", "stopRecording", "setRecordingEnabled", "resetToDefaults",
     "updatePLocks", "applyMappings"}

\* C17 as stated: every operation on the parameter store and the automation
\* sequencer executes on the render thread, none on the MIDI input thread or
\* the audio thread
C17_RenderThreadOnly ==
    [][lastOp'.op \in StoreOperations => thread' = "render"]_vars

\* the render thread's accesses to what audioIn() writes (the sample buffer,
\* the FFT, the input level)
AnalyzerAccesses == {"groupBands", "getAudioInputLevel", "fft.reset"}

\* C18 as stated: the render thread reads or writes the variables written by
\* the audio thread only while it holds the lock, the input-level getter and
\* the FFT release at exit included
C18_AccessUnderLock ==
    [][(thread' = "render" /\ lastOp'.op \in AnalyzerAccesses)
          => audioMutex = "render"]_vars

----------------------------------------------------------------------------
\* C21: when several mappings of the list target one parameter (by the same
\* id or by an alias), after one applyMappings pass the parameter's audio
\* offset is the value of the last of them that is applied; the values of
\* the earlier ones are not added to it
C21_LastMappingWins ==
    [][lastOp'.op = "applyMappings" =>
          \A i \in 1 .. Len(mappings) : \A j \in 1 .. Len(mappings) :
             LET m == mappings[j] IN
             (/\ i < j
              /\ Decides(j)
              /\ mappings[i].band \in Bands
              /\ TargetOf(mappings[i].paramId) = TargetOf(m.paramId)) =>
                IsClamped(audioOffset'[TargetOf(m.paramId)],
                          m.min * Unit * Unit
                             + smoothedBands[m.band] * m.scale * (m.max - m.min),
                          m.min, m.max)]_vars

\* "z_displace" (value -0.1 at energy 0.5) then its alias "zDisplace" (value
\* 0.5) were applied: the offset is 0.5, not the sum 0.4
C21_Witness ==
    /\ lastOp.op = "applyMappings"
    /\ mappings = <<BandMapping(0, "z_displace", 500, -200, 200, FALSE),
                    BandMapping(0, "zDisplace", Unit, 0, Unit, FALSE)>>
    /\ smoothedBands[0] = 500
    /\ audioOffset["zDisplace"] = 500

\* C22: invalid indices are not fatal: getBand(i) returns 0 for i outside
\* [0, numBands - 1]; removeMapping(i) with i outside the list leaves the
\* list unchanged; applyMappings skips a mapping whose band is out of range,
\* which writes no offset, and still applies the other mappings
C22_InvalidIndices ==
    [][/\ (lastOp'.op = "getBand" /\ lastOp'.index \notin Bands)
             => lastOp'.value = 0
       /\ (lastOp'.op = "removeMapping"
              /\ lastOp'.index \notin 0 .. (Len(mappings) - 1))
             => mappings' = mappings
       /\ lastOp'.op = "applyMappings" =>
             /\ \A id \in ParamIds :
                   (\A k \in 1 .. Len(mappings) :
                       TargetOf(mappings[k].paramId) = id
                          => mappings[k].band \notin Bands)
                      => audioOffset'[id] = audioOffset[id]
             /\ \A i \in 1 .. Len(mappings) :
                   LET m == mappings[i] IN
                   (Decides(i) /\ \E k \in 1 .. Len(mappings) :
                                     mappings[k].band \notin Bands) =>
                      IsClamped(audioOffset'[TargetOf(m.paramId)],
                                m.min * Unit * Unit
                                   + smoothedBands[m.band] * m.scale * (m.max - m.min),
                                m.min, m.max)]_vars

\* the first mapping has the band numBands and was skipped (its target keeps
\* the offset 0), the second one was applied
C22_Witness ==
    /\ lastOp.op = "applyMappings"
    /\ mappings = <<BandMapping(numBands, "z_displace", 500, -200, 200, FALSE),
                    BandMapping(0, "rotate", Unit, 0, Unit, FALSE)>>
    /\ smoothedBands[0] = 500
    /\ audioOffset["zDisplace"] = 0
    /\ audioOffset["rotate"] = 500

----------------------------------------------------------------------------
(* Settings: settings.xml is read at startup and by Shift+L while the      *)
(* performer sets values and records                                       *)

\* <param> tags around a tag without id and a tag with an id outside the
\* catalog; a toggle of the catalog; a tag without value
FileD == [exists |-> TRUE, hasParamManager |-> TRUE, hasPlocks |-> TRUE,
          hasLocks |-> TRUE, smoothFactor |-> 500,
          locks |-> PatternLocks,
          params |-> << [id |-> "mix", value |-> 250, midiChannel |-> 1,
                         midiControl |-> 17, oscAddr |-> "/mix"],
                        [value |-> 700, midiChannel |-> 3, midiControl |-> 30,
                         oscAddr |-> "/lost"],
                        [id |-> "noSuchParameter", value |-> 900, midiChannel |-> 2,
                         midiControl |-> 18, oscAddr |-> "/none"],
                        [id |-> "hue", value |-> 300, midiControl |-> 18],
                        [id |-> "hueInvert", midiChannel |-> 4, midiControl |-> 42,
                         oscAddr |-> "/invert"],
                        [id |-> "xLfoRate", value |-> 250],
                        [id |-> "rotate", oscAddr |-> "/rotate"] >>]

\* an unknown id first, then the same parameter twice
FileE == [exists |-> TRUE, hasParamManager |-> TRUE, hasPlocks |-> FALSE,
          hasLocks |-> FALSE, smoothFactor |-> 0,
          locks |-> [i \in Tracks |-> <<>>],
          params |-> << [id |-> "unknown", value |-> 100, midiControl |-> 7],
                        [id |-> "delayAmount", value |-> 2, midiControl |-> 19],
                        [id |-> "delayAmount", value |-> 1] >>]

LoadFiles == {[param |-> xml] : xml \in {NoFile, FileB, FileD, FileE}}
LoadValues == {800}

LoadInit ==
    /\ ConstructedStore
    /\ ConstructedAnalyzer
    /\ settingsFile \in LoadFiles
    /\ focus = "mix"
    /\ rt = RtIdle

LoadNext ==
    \/ Setup(settingsFile.param)
    \/ settingsFile.param.exists
          /\ Call(Called("loadFromXml", 0, 0, TRUE), loadFromXml(settingsFile.param))
    \/ \E v \in LoadValues : Call(Called("mix", MIX, v, TRUE), setMix(v, TRUE))
    \/ Call(Called("startRecording", 0, 0, FALSE), startRecording)
    \/ Call(Called("stopRecording", 0, 0, FALSE), stopRecording)
    \/ update

LoadSpec == LoadInit /\ [][LoadNext]_vars

\* the <param> tags of settings.xml
FileParams == settingsFile.param.params

\* tag k names a parameter of the catalog
Known(k) ==
    /\ "id" \in DOMAIN FileParams[k]
    /\ FileParams[k].id /= "unknown"
    /\ FileParams[k].id \in parameterIds

\* the value after the load of the parameter id that held `before`: the
\* value of the last tag with this id and a value, `before` if there is none
ValueLoaded(id, before) ==
    LET tags == {k \in 1 .. Len(FileParams) :
                    Known(k) /\ FileParams[k].id = id
                       /\ "value" \in DOMAIN FileParams[k]}
    IN  IF tags = {} THEN before
        ELSE FileParams[CHOOSE k \in tags : \A j \in tags : j <= k].value

\* the mappings after the load of the parameter id that had `before`: the
\* attributes of the last tag with this id
MappingLoaded(id, before) ==
    LET tags == {k \in 1 .. Len(FileParams) : Known(k) /\ FileParams[k].id = id}
        last == FileParams[CHOOSE k \in tags : \A j \in tags : j <= k]
    IN  IF tags = {} THEN before
        ELSE [midiChannel |-> Attribute(last, "midiChannel", -1),
              midiControl |-> Attribute(last, "midiControl", -1),
              oscAddr |-> Attribute(last, "oscAddr", "")]

\* C23: while the parameters are loaded, a <param> tag whose id is missing
\* or not in the catalog changes no parameter value and no MIDI/OSC mapping,
\* and the tags after it are still processed: after the load every value
\* and mapping is the one of the last tag of the catalog that names it
C23_UnknownIdsSkipped ==
    [][(lastOp'.op \in {"setup", "loadFromXml"} /\ lastOp'.flag
           /\ settingsFile.param.hasParamManager) =>
          /\ \A id \in ParamIds : base'[id] = ValueLoaded(id, base[id])
          /\ \A id \in LfoIds : lfo'[id] = ValueLoaded(id, lfo[id])
          /\ \A id \in parameterIds :
                paramMappings'[id] = MappingLoaded(id, paramMappings[id])]_vars

\* FileD was loaded by Shift+L: the tags before and after the tag
\* without id and the tag "noSuchParameter" have set their values and
\* mappings, and the mappings 30 and "/none" of the two skipped tags are
\* nowhere
C23_Witness ==
    /\ lastOp.op = "loadFromXml"
    /\ settingsFile.param = FileD
    /\ base["mix"] = 250
    /\ base["hue"] = 300
    /\ lfo["xLfoRate"] = 250
    /\ paramMappings["mix"].midiControl = 17
    /\ paramMappings["hue"].midiControl = 18
    /\ paramMappings["hueInvert"].oscAddr = "/invert"
    /\ \A id \in parameterIds :
          /\ paramMappings[id].midiControl /= 30
          /\ paramMappings[id].oscAddr /= "/none"

----------------------------------------------------------------------------
(* Saving.  settings.xml is text: ofToString and the value writers of      *)
(* ofxXmlSettings print a float with 6 digits, fewer than a float holds.   *)
(* Here a float holds multiples of 1 / Unit and the text multiples of      *)
(* TextStep / Unit; an int is printed exactly.                             *)

TextStep == Unit \div 100

\* the float that ofToFloat reads back from the text printed for f
Text(f) == RDiv(f, TextStep) * TextStep

\* parameterIds in the order of initializeParameterMaps()
SavedOrder ==
    << "hueInvert", "saturationInvert", "brightnessInvert",
       "horizontalMirror", "verticalMirror", "lumakeyInvert", "toroidEnabled",
       "mirrorModeEnabled", "wetModeEnabled", "lumakeyValue", "mix", "hue",
       "saturation", "brightness", "temporalFilterMix",
       "temporalFilterResonance", "sharpenAmount", "xDisplace", "yDisplace",
       "zDisplace", "rotate", "hueModulation", "hueOffset", "hueLFO",
       "zFrequency", "xFrequency", "yFrequency", "delayAmount", "xLfoAmp",
       "xLfoRate", "yLfoAmp", "yLfoRate", "zLfoAmp", "zLfoRate",
       "rotateLfoAmp", "rotateLfoRate", "vLumakeyValue", "vMix", "vHue",
       "vSaturation", "vBrightness", "vTemporalFilterMix",
       "vTemporalFilterResonance", "vSharpenAmount", "vXDisplace",
       "vYDisplace", "vZDisplace", "vRotate", "vHueModulation", "vHueOffset",
       "vHueLFO", "videoReactiveMode", "lfoAmpMode", "lfoRateMode" >>

\* the <param> tag saveToXml writes for an id: the base value (the toggles,
\* video-reactivity parameters and modes have a value outside this model)
\* and the three mappings
SavedParam(id) ==
    LET tag == [id |-> id,
                midiChannel |-> paramMappings[id].midiChannel,
                midiControl |-> paramMappings[id].midiControl,
                oscAddr |-> paramMappings[id].oscAddr]
        Valued(v) == [a \in DOMAIN tag \cup {"value"} |->
                         IF a = "value" THEN v ELSE tag[a]]
    IN  IF id = "delayAmount" THEN Valued(base[id])
        ELSE IF id \in ParamIds THEN Valued(Text(base[id]))
        ELSE IF id \in LfoIds THEN Valued(Text(lfo[id]))
        ELSE tag

\* saveToXml(xml): the paramManager tag it leaves in the document
saveToXml ==
    [exists |-> TRUE, hasParamManager |-> TRUE, hasPlocks |-> TRUE,
     hasLocks |-> TRUE,
     smoothFactor |-> Text(pLockSmoothFactor),
     locks |-> [i \in Tracks |->
                  [k \in 1 .. P_LOCK_SIZE |-> Text(pLockValues[i][k - 1])]],
     params |-> [k \in 1 .. Len(SavedOrder) |-> SavedParam(SavedOrder[k])]]

\* what the store held when settings.xml was written
Snapshot ==
    [base |-> base, lfo |-> lfo, pLockSmoothFactor |-> pLockSmoothFactor,
     pLockValues |-> pLockValues, paramMappings |-> paramMappings]

\* Shift+S: paramManager->saveToXml(xml) and xml.saveFile("settings.xml");
\* the field `saved` is history
SaveSettings ==
    /\ phase = "running"
    /\ "saved" \notin DOMAIN settingsFile
    /\ lastOp' = Called("saveToXml", 0, 0, FALSE)
    /\ thread' = "render"
    /\ settingsFile' = [param |-> saveToXml, saved |-> Snapshot]
    /\ UNCHANGED <<phase, storeVars, videoVars, audioVars, focus, ticks, rt>>

\* the values the performer sets: 0.8, and 0.255 for a value with more
\* digits than the text keeps (a MIDI value / 127, a delay / 239)
SaveValues == {800, 255}

SaveInit ==
    /\ ConstructedStore
    /\ ConstructedAnalyzer
    /\ settingsFile = NoSettings
    /\ focus = "mix"
    /\ rt = RtIdle

SaveNext ==
    \/ Setup(settingsFile.param)
    \/ \E v \in SaveValues : Call(Called("mix", MIX, v, TRUE), setMix(v, TRUE))
    \/ Call(Called("startRecording", 0, 0, FALSE), startRecording)
    \/ update
    \/ SaveSettings
    \/ settingsFile.param.exists
          /\ Call(Called("loadFromXml", 0, 0, TRUE), loadFromXml(settingsFile.param))

SaveSpec == SaveInit /\ [][SaveNext]_vars

\* C24 as stated: saveToXml followed by loadFromXml into a store in any
\* state restores the same base value of every parameter, the same
\* smoothing factor and the same matrix of raw automation values, and the
\* load records nothing (the matrix is the saved one)
C24_RoundTrip ==
    [][(lastOp'.op = "loadFromXml" /\ "saved" \in DOMAIN settingsFile) =>
          /\ base' = settingsFile.saved.base
          /\ lfo' = settingsFile.saved.lfo
          /\ pLockSmoothFactor' = settingsFile.saved.pLockSmoothFactor
          /\ pLockValues' = settingsFile.saved.pLockValues]_vars

----------------------------------------------------------------------------
(* Saving and loading the mapping list.  The band-range table is set by    *)
(* setupDefaultBandRanges() and by a load only, and is not modelled.       *)

MaxMappings == 2

addMapping(mapping) ==
    /\ mappings' = Append(mappings, mapping)
    /\ UNCHANGED <<audioEnabled, fft, audioInputInitialized, smoothedBands,
                   audioInputLevel, spectrumVars, settingVars>>

clearMappings ==
    /\ mappings' = <<>>
    /\ UNCHANGED <<audioEnabled, fft, audioInputInitialized, smoothedBands,
                   audioInputLevel, spectrumVars, settingVars>>

\* AudioReactivityManager::saveToXml(xml): the audioReactivity tag it writes
AudioReactivity_saveToXml ==
    [enabled |-> audioEnabled,
     normalizationEnabled |-> normalizationEnabled,
     sensitivity |-> Text(sensitivity),
     smoothing |-> Text(smoothing),
     mappings |-> [k \in 1 .. Len(mappings) |->
                     BandMapping(mappings[k].band, mappings[k].paramId,
                                 Text(mappings[k].scale), Text(mappings[k].min),
                                 Text(mappings[k].max), mappings[k].additive)]]

\* AudioReactivityManager::loadFromXml(xml) on a document holding the tag:
\* the list is cleared, the saved mappings are added and, if none was
\* added, the default mappings are; setupAudioInput() if enabled
AudioReactivity_loadFromXml(tag) ==
    /\ audioEnabled' = tag.enabled
    /\ mappings' = IF tag.mappings = <<>> THEN DefaultMappings ELSE tag.mappings
    /\ audioInputInitialized' \in
          IF tag.enabled THEN BOOLEAN ELSE {audioInputInitialized}
    /\ normalizationEnabled' = tag.normalizationEnabled
    /\ sensitivity' = tag.sensitivity
    /\ smoothing' = tag.smoothing
    /\ UNCHANGED <<fft, smoothedBands, audioInputLevel, spectrumVars>>

\* Shift+S: both managers write into a fresh document
SaveAll ==
    /\ phase = "running"
    /\ lastOp' = Called("saveToXml", 0, Len(mappings), FALSE)
    /\ thread' = "render"
    /\ settingsFile' = [param |-> saveToXml,
                        audioReactivity |-> AudioReactivity_saveToXml,
                        savedMappings |-> mappings]
    /\ UNCHANGED <<phase, storeVars, videoVars, audioVars, focus, ticks, rt>>

\* Shift+L: both managers read the document
LoadAll ==
    /\ phase = "running"
    /\ "audioReactivity" \in DOMAIN settingsFile
    /\ lastOp' = Called("loadFromXml", 0, Len(settingsFile.savedMappings), TRUE)
    /\ thread' = "render"
    /\ loadFromXml(settingsFile.param)
    /\ AudioReactivity_loadFromXml(settingsFile.audioReactivity)
    /\ UNCHANGED <<phase, videoVars, audioMutex, renderPc, audioPc,
                   settingsFile, focus, ticks, rt>>

AddedMappings ==
    { BandMapping(0, "z_displace", 500, -200, 200, FALSE),
      BandMapping(numBands - 1, "rotate", Unit, 0, Unit, TRUE) }

AudioSaveInit ==
    /\ ConstructedStore
    /\ ConstructedAnalyzer
    /\ settingsFile = NoSettings
    /\ focus = "mix"
    /\ rt = RtIdle

AudioSaveNext ==
    \/ Setup(NoFile)
    \/ \E mapping \in AddedMappings :
          /\ Len(mappings) < MaxMappings
          /\ AnalyzerCall(Called("addMapping", 0, Len(mappings), FALSE),
                          addMapping(mapping))
    \/ AnalyzerCall(Called("removeMapping", 0, Len(mappings), FALSE),
                    removeMapping(0))
    \/ AnalyzerCall(Called("clearMappings", 0, Len(mappings), FALSE),
                    clearMappings)
    \/ SaveAll
    \/ LoadAll

AudioSaveSpec == AudioSaveInit /\ [][AudioSaveNext]_vars

\* C25 as stated: saving any mapping list, the empty one included, and
\* loading it again yields exactly the saved mapping list
C25_RoundTrip ==
    [][lastOp'.op = "loadFromXml" =>
          mappings' = settingsFile.savedMappings]_vars

----------------------------------------------------------------------------
(* The signal and the spectrum.  A float of this part is a fixed-point     *)
(* number of magnitude up to FloatMax, or one of Inf, -Inf and NaN; an     *)
(* operation whose exact result is larger than FloatMax gives an           *)
(* infinity, as a float operation does.                                    *)

FloatMax == Unit * Unit
Inf == FloatMax + 1
NaN == FloatMax + 2

isnan(x) == x = NaN
isinf(x) == x = Inf \/ x = -Inf
isfinite(x) == ~isnan(x) /\ ~isinf(x)

\* the float of an exact result
Rounded(n) == IF n > FloatMax THEN Inf ELSE IF n < -FloatMax THEN -Inf ELSE n

\* the infinity with the sign of a product or quotient of a and b
Signed(a, b) == IF (a < 0) = (b < 0) THEN Inf ELSE -Inf

\* a < b on floats: false if either is NaN
Less(a, b) == ~isnan(a) /\ ~isnan(b) /\ a < b

fAdd(a, b) ==
    IF isnan(a) \/ isnan(b) \/ (isinf(a) /\ b = -a) THEN NaN
    ELSE IF isinf(a) THEN a
    ELSE IF isinf(b) THEN b
    ELSE Rounded(a + b)

fMul(a, b) ==
    IF isnan(a) \/ isnan(b) \/ (isinf(a) /\ b = 0) \/ (a = 0 /\ isinf(b)) THEN NaN
    ELSE IF a = 0 \/ b = 0 THEN 0
    ELSE IF isinf(a) \/ isinf(b) THEN Signed(a, b)
    ELSE IF Abs(a) > (FloatMax * Unit) \div Abs(b) THEN Signed(a, b)
    ELSE Rounded(RDiv(a * b, Unit))

fDiv(a, b) ==
    IF isnan(a) \/ isnan(b) \/ (isinf(a) /\ isinf(b)) \/ (a = 0 /\ b = 0) THEN NaN
    ELSE IF isinf(b) THEN 0
    ELSE IF isinf(a) \/ b = 0 THEN Signed(a, b)
    ELSE IF b > 0 THEN Rounded(RDiv(a * Unit, b))
    ELSE Rounded(-RDiv(a * Unit, -b))

\* the largest r of lo .. hi with r * r <= n
RECURSIVE Root(_, _, _)
Root(n, lo, hi) ==
    IF lo >= hi THEN lo
    ELSE LET mid == (lo + hi + 1) \div 2
         IN  IF mid * mid <= n THEN Root(n, mid, hi) ELSE Root(n, lo, mid - 1)

fSqrt(a) ==
    IF isnan(a) \/ a < 0 THEN NaN
    ELSE IF isinf(a) THEN Inf
    ELSE Root(a * Unit, 0, 32 * Unit)

\* std::max(a, b): (a < b) ? b : a
stdMax(a, b) == IF Less(a, b) THEN b ELSE a


\* audioIn(input), the copy: a NaN or infinite sample is stored as 0
Sanitized(sample) == IF isnan(sample) \/ isinf(sample) THEN 0 ELSE sample

\* audioIn(input), sumSquared after the first n samples
RECURSIVE SumSquared(_, _)
SumSquared(input, n) ==
    IF n = 0 THEN 0
    ELSE fAdd(SumSquared(input, n - 1), fMul(Sanitized(input[n]), Sanitized(input[n])))

\* audioIn(input) under the lock: nothing for an empty block; else the
\* sanitised copy, the RMS level and fft->setSignal(audioBuffer)
audioInBlock(input) ==
    LET numSamples == IF Len(input) < bufferSize THEN Len(input) ELSE bufferSize IN
    /\ audioInputInitialized
    /\ IF Len(input) = 0
       THEN UNCHANGED <<audioBuffer, audioInputLevel>>
       ELSE /\ audioBuffer' = [k \in 1 .. bufferSize |->
                                 IF k <= numSamples THEN Sanitized(input[k])
                                 ELSE audioBuffer[k]]
            /\ audioInputLevel' =
                  fSqrt(fDiv(SumSquared(input, numSamples), numSamples * Unit))
    /\ UNCHANGED <<audioEnabled, fft, audioInputInitialized, smoothedBands,
                   mappings, fftSpectrum, fftSmoothed, settingVars>>

\* the sum of the first n samples, each second one negated if alternate
RECURSIVE SignalSum(_, _, _)
SignalSum(signal, n, alternate) ==
    IF n = 0 THEN 0
    ELSE fAdd(SignalSum(signal, n - 1, alternate),
              IF alternate /\ n % 2 = 0 THEN -signal[n] ELSE signal[n])

\* fft->getAmplitudeVector() for the signal set last: the magnitude of the
\* transform at frequency 0 (bin 0) and at half the sample rate (bin 1)
getAmplitudeVector(signal) ==
    [bin \in Bins |->
        LET sum == SignalSum(signal, Len(signal), bin = 1)
        IN  IF isfinite(sum) THEN Abs(sum) ELSE Inf]

\* analyzeAudio(): the raw spectrum
Spectrum(fftResult) ==
    [bin \in Bins |->
        LET x == fMul(fMul(fftResult[bin], sensitivity), 10 * Unit)
        IN  fMul(x, x)]

\* analyzeAudio(): maxVal after the first loop
MaxVal(spectrum) ==
    IF normalizationEnabled THEN stdMax(stdMax(0, spectrum[0]), spectrum[1])
    ELSE Unit

\* analyzeAudio() with the analysis of the repeated update left out
Smoothed_Held(spectrum, previous) ==
    previous

\* analyzeAudio(): the second loop
Smoothed(spectrum, previous) ==
    LET maxVal == MaxVal(spectrum) IN
    [bin \in Bins |->
        LET processedValue == IF Less(0, maxVal)
                              THEN fDiv(spectrum[bin], maxVal) ELSE 0
        IN  stdMax(fMul(previous[bin], smoothing),
                   fMul(processedValue, Unit - smoothing))]

\* groupBands(): band i covers bin i; the bands past the spectrum are empty
groupBands(spectrum, previous) ==
    [i \in Bands |->
        LET average == IF i \in Bins THEN fDiv(spectrum[i], Unit) ELSE 0
        IN  fAdd(fMul(average, Unit - smoothing), fMul(previous[i], smoothing))]

\* AudioReactivityManager::update(): analyzeAudio() and groupBands() under
\* the lock, then applyMappings()
AnalyzerUpdate ==
    /\ phase = "running"
    /\ ticks < MaxTicks
    /\ ticks' = ticks + 1
    /\ lastOp' = Called("update", 0, 0, audioEnabled /\ fft)
    /\ thread' = "render"
    /\ IF audioEnabled /\ fft
       THEN /\ fftSpectrum' = Spectrum(getAmplitudeVector(audioBuffer))
            /\ fftSmoothed' = Smoothed(fftSpectrum', fftSmoothed)
            /\ smoothedBands' = groupBands(fftSmoothed', smoothedBands)
            /\ audioOffset' = AppliedMappings(mappings, smoothedBands', audioOffset)
       ELSE UNCHANGED <<fftSpectrum, fftSmoothed, smoothedBands, audioOffset>>
    /\ UNCHANGED <<phase, recordingEnabled, currentStep, pLockValues,
                   pLockSmoothedValues, pLockSmoothFactor, base, lfo,
                   paramMappings, videoVars, audioEnabled, fft,
                   audioInputInitialized, mappings, audioInputLevel, audioBuffer,
                   settingVars,
                   audioMutex, renderPc, audioPc, settingsFile, focus, rt>>

\* deviceList: the input channels of each device
deviceList == <<1, 0, 2>>

\* selectAudioDevice(deviceIndex); the call returns lastOp.flag
selectAudioDevice(deviceIndex) ==
    LET valid == /\ deviceIndex >= 0
                 /\ deviceIndex < Len(deviceList)
                 /\ deviceList[deviceIndex + 1] > 0 IN
    /\ lastOp' = Called("selectAudioDevice", deviceIndex, 0, valid)
    /\ audioInputInitialized' \in
          IF valid
          THEN IF audioEnabled THEN BOOLEAN ELSE {FALSE}
          ELSE {audioInputInitialized}
    /\ UNCHANGED <<audioEnabled, fft, smoothedBands, mappings, audioInputLevel,
                   spectrumVars, settingVars>>

\* the samples of a block: silence, 0.25, 0.5, a finite sample whose square
\* is past FloatMax, an infinity and NaN
SampleValues == {0, Unit \div 4, Unit \div 2, 100 * Unit, -Inf, NaN}

Blocks == {<<>>} \cup [1 .. bufferSize -> SampleValues]

DeviceIndices == {-1, 0, 1, Len(deviceList)}

SpectrumCall(effect) ==
    /\ phase = "running"
    /\ thread' = "render"
    /\ effect
    /\ UNCHANGED <<phase, storeVars, videoVars, audioMutex, renderPc, audioPc,
                   settingsFile, focus, ticks, rt>>

SpectrumInit ==
    /\ ConstructedStore
    /\ ConstructedAnalyzer
    /\ settingsFile = NoSettings
    /\ focus = "mix"
    /\ rt = RtIdle

SpectrumNext ==
    \/ ThreadSetup(FALSE, FALSE)
    \/ \E on \in BOOLEAN :
          RenderStep(Called("setEnabled", 0, 0, on), "idle", "idle", setEnabled(on))
    \/ \E input \in Blocks :
          SpectrumCall(/\ lastOp' = Called("audioIn", 0, Len(input), TRUE)
                       /\ audioInBlock(input))
    \/ AnalyzerUpdate
    \/ \E deviceIndex \in DeviceIndices :
          SpectrumCall(selectAudioDevice(deviceIndex))

SpectrumSpec == SpectrumInit /\ [][SpectrumNext]_vars

\* C26 as stated: whatever the blocks were, every stored sample and the
\* input level are finite, and so are the raw spectrum, the smoothed
\* spectrum and the band energies
C26_Sanitized ==
    /\ \A k \in 1 .. bufferSize : isfinite(audioBuffer[k])
    /\ isfinite(audioInputLevel)
    /\ \A bin \in Bins : isfinite(fftSpectrum[bin]) /\ isfinite(fftSmoothed[bin])
    /\ \A i \in Bands : isfinite(smoothedBands[i])

\* C27 as stated: when selectAudioDevice has returned true, the raw and
\* the smoothed spectrum are all zero
C27_SpectrumReset ==
    [][(lastOp'.op = "selectAudioDevice" /\ lastOp'.flag) =>
          \A bin \in Bins : fftSpectrum'[bin] = 0 /\ fftSmoothed'[bin] = 0]_vars

\* C30 as stated: a render update that follows a render update, with no
\* audio callback between them and audio reactivity enabled, leaves the
\* smoothed spectrum as it was
C30_HeldWithoutCallback ==
    [][(lastOp.op = "update" /\ lastOp'.op = "update" /\ audioEnabled) =>
          fftSmoothed' = fftSmoothed]_vars

----------------------------------------------------------------------------
(* The render tick of the application and the content of the ring.         *)

\* ofApp::update(), the video part: the pipeline runs if the input source
\* has a frame (inputReady), then the frame index is incremented
AppUpdate(inputReady) ==
    /\ phase = "running"
    /\ lastOp' = Called("update", currentFrameIndex, frameCount, inputReady)
    /\ thread' = "render"
    /\ IF inputReady
       THEN /\ pipeline' =
                  LET delayAmount == ofClamp(getDelayAmount, 0, frameBufferLength - 1)
                  IN  [returned      |-> getDelayAmount,
                       delayAmount   |-> delayAmount,
                       delayIndex    |-> DelayIndex(frameBufferLength,
                                                    currentFrameIndex, delayAmount),
                       temporalIndex |-> TemporalIndex(frameBufferLength,
                                                       currentFrameIndex),
                       storeIndex    |-> StoreIndex(frameBufferLength,
                                                    currentFrameIndex)]
            /\ \E garbage \in BOOLEAN :
                  /\ pastFrames' = RingAfterPass(garbage).frames
                  /\ pastFramesAllocated' = RingAfterPass(garbage).allocated
       ELSE UNCHANGED <<pipeline, pastFrames, pastFramesAllocated>>
    /\ frameCount' = (frameCount + 1) % FrameCountLimit
    /\ currentFrameIndex' = ((frameCount + 1) % FrameCountLimit) % frameBufferLength
    /\ UNCHANGED <<phase, storeVars, frameBufferLength, audioVars, settingsFile,
                   focus, ticks, rt>>

FrameInit ==
    /\ ConstructedStore
    /\ ConstructedAnalyzer
    /\ settingsFile = NoSettings
    /\ focus = "delayAmount"
    /\ rt = RtIdle

FrameNext ==
    \/ \E xml \in {NoFile, FileA}, n \in SavedLengths : AppSetup(xml, n)
    \/ \E v \in RingDelayValues :
          Call(Called("delayAmount", DELAY_AMOUNT, v, TRUE), setDelayAmount(v, TRUE))
    \/ \E inputReady \in BOOLEAN : AppUpdate(inputReady)

FrameSpec == FrameInit /\ [][FrameNext]_vars

\* the pipeline ran on each of the last frameBufferLength ticks: the slots
\* hold the outputs of exactly these ticks
RanEveryTick ==
    /\ frameCount >= frameBufferLength
    /\ \A i \in DOMAIN pastFrames :
          pastFrames[i] >= frameCount - frameBufferLength /\ pastFrames[i] < frameCount

\* C28 as stated: when the pipeline has run on every tick, the slot that the
\* temporal filter reads at tick T >= N holds the frame drawn at tick T - 1
C28_PreviousFrame ==
    [][(lastOp'.op = "update" /\ lastOp'.flag /\ RanEveryTick) =>
          pastFrames[TemporalIndex(frameBufferLength, currentFrameIndex)]
             = frameCount - 1]_vars

\* C29 as stated: every render tick writes its output to the slot
\* writeSlot(T) and changes no other slot
C29_OneWritePerTick ==
    [][lastOp'.op = "update" =>
          /\ pastFrames'[StoreIndex(frameBufferLength, currentFrameIndex)] = frameCount
          /\ \A i \in DOMAIN pastFrames :
                i # StoreIndex(frameBufferLength, currentFrameIndex) =>
                   pastFrames'[i] = pastFrames[i]]_vars

----------------------------------------------------------------------------
\* C31 as stated: the smoothed energy of a band has the deadband applied: a
\* smoothed band energy of magnitude below 0.01 is exactly 0
C31_BandDeadband ==
    \A i \in Bands :
        Abs(smoothedBands[i]) < DeadbandThreshold => smoothedBands[i] = 0

----------------------------------------------------------------------------
(* The settings of the analysis: the keys N, + and -, setSmoothing, and a  *)
(* settings document loaded with Shift+L; the settings are changed before *)
(* the first analysis.                                                     *)

setSensitivity(value) ==
    /\ sensitivity' = value
    /\ UNCHANGED <<audioEnabled, fft, audioInputInitialized, smoothedBands,
                   mappings, audioInputLevel, spectrumVars, smoothing,
                   normalizationEnabled>>

setSmoothing(value) ==
    /\ smoothing' = ofClamp(value, 0, (99 * Unit) \div 100)
    /\ UNCHANGED <<audioEnabled, fft, audioInputInitialized, smoothedBands,
                   mappings, audioInputLevel, spectrumVars, sensitivity,
                   normalizationEnabled>>

setNormalizationEnabled(on) ==
    /\ normalizationEnabled' = on
    /\ UNCHANGED <<audioEnabled, fft, audioInputInitialized, smoothedBands,
                   mappings, audioInputLevel, spectrumVars, sensitivity,
                   smoothing>>

\* the audioReactivity tags of the settings documents loaded: smoothing -1
\* and 2, and one mapping, of a band that does not exist
AudioTags ==
    { [enabled |-> TRUE, normalizationEnabled |-> TRUE, sensitivity |-> Unit,
       smoothing |-> s,
       mappings |-> <<BandMapping(numBands, "rotate", Unit, 0, Unit, TRUE)>>] :
      s \in {-Unit, 2 * Unit} }

SettingBlocks ==
    { <<0, 0>>, <<Unit \div 2, Unit \div 2>>, <<0, 100 * Unit>> }

SmoothingArguments == {-Unit, 2 * Unit}

SettingsNext ==
    \/ ThreadSetup(FALSE, FALSE)
    \/ RenderStep(Called("setEnabled", 0, 0, TRUE), "idle", "idle", setEnabled(TRUE))
    \/ \E input \in SettingBlocks :
          SpectrumCall(/\ lastOp' = Called("audioIn", 0, Len(input), TRUE)
                       /\ audioInBlock(input))
    \/ AnalyzerUpdate
    \/ SpectrumCall(/\ lastOp' = Called("setSensitivity", 0, 0, FALSE)
                    /\ ticks = 0
                    /\ sensitivity <= Unit
                    /\ setSensitivity(sensitivity + Unit \div 10))
    \/ \E value \in SmoothingArguments :
          SpectrumCall(/\ lastOp' = Called("setSmoothing", 0, value, FALSE)
                       /\ ticks = 0
                       /\ setSmoothing(value))
    \/ SpectrumCall(/\ lastOp' = Called("setNormalizationEnabled", 0, 0,
                                        ~normalizationEnabled)
                    /\ ticks = 0
                    /\ setNormalizationEnabled(~normalizationEnabled))
    \/ \E tag \in AudioTags :
          SpectrumCall(/\ lastOp' = Called("loadFromXml", 0, tag.smoothing, TRUE)
                       /\ ticks = 0
                       /\ AudioReactivity_loadFromXml(tag))

SettingsSpec == SpectrumInit /\ [][SettingsNext]_vars

\* C32 as stated: in every reachable state the energy of each band lies in
\* [0, 1]
C32_BandsInUnitRange ==
    \A i \in Bands : smoothedBands[i] >= 0 /\ smoothedBands[i] <= Unit

\* C33 as stated: every bin of the smoothed spectrum is a number >= 0
C33_SmoothedNonNegative ==
    \A bin \in Bins : ~isnan(fftSmoothed[bin]) /\ fftSmoothed[bin] >= 0

----------------------------------------------------------------------------
(* The mode keys.  The LFO-mode and video-reactive flags themselves are    *)
(* outside this model; the handlers are modelled by what they do to the    *)
(* record-mode flag.                                                       *)

\* ofApp::keyPressed; keys are their character codes.  '1' (49) and '2'
\* (50): with Shift, the LFO mode is switched on and record mode, if active,
\* is switched off.  'a' (97) and 'z' (122) step the luma key value by 0.01,
\* '[' (91) and ']' (93) step the delay by one frame; each passes the
\* getter's value, stepped, to the setter
keyPressed(key, shiftPressed) ==
    CASE key \in {49, 50} ->
            IF shiftPressed /\ recordingEnabled
            THEN setRecordingEnabled(FALSE)
            ELSE UNCHANGED storeVars
      [] key = 97 ->
            setLumakeyValue(getLumakeyValue + Unit \div 100, TRUE)
      [] key = 122 ->
            setLumakeyValue(getLumakeyValue - Unit \div 100, TRUE)
      [] key = 91 ->
            setDelayAmount(getDelayAmount + 1, TRUE)
      [] key = 93 ->
            LET delay == getDelayAmount - 1
            IN  setDelayAmount(IF delay < 0
                               THEN frameBufferLength - delay
                               ELSE delay, TRUE)
      [] OTHER -> UNCHANGED storeVars

\* ofApp::keyReleased, '1' and '2': with Shift, the LFO mode is switched off
\* and record mode is switched on
keyReleased(key, shiftPressed) ==
    IF shiftPressed
    THEN setRecordingEnabled(TRUE)
    ELSE UNCHANGED storeVars

ModeKeys == {49, 50}

ModeInit ==
    /\ ConstructedStore
    /\ ConstructedAnalyzer
    /\ settingsFile = NoSettings
    /\ focus = "none"
    /\ rt = RtIdle

\* a key is released right after it was pressed; the flag of the press is
\* the record-mode flag before it
ModeNext ==
    \/ \E xml \in {NoFile, FileA} : Setup(xml)
    \/ Call(Called("startRecording", 0, 0, FALSE), startRecording)
    \/ Call(Called("stopRecording", 0, 0, FALSE), stopRecording)
    \/ update
    \/ \E control \in MidiControls, value \in MidiValues :
          newMidiMessage(control, value)
    \/ \E key \in ModeKeys, shiftPressed \in BOOLEAN :
          /\ shiftPressed \/ lastOp.op # "keyPressed"
          /\ Call(Called("keyPressed", key, IF shiftPressed THEN 1 ELSE 0,
                         recordingEnabled),
                  keyPressed(key, shiftPressed))
    \/ \E key \in ModeKeys, shiftPressed \in BOOLEAN :
          /\ lastOp.op = "keyPressed" /\ lastOp.index = key /\ lastOp.value = 1
          /\ Call(Called("keyReleased", key, IF shiftPressed THEN 1 ELSE 0,
                         lastOp.flag),
                  keyReleased(key, shiftPressed))

ModeSpec == ModeInit /\ [][ModeNext]_vars

\* C34 as stated: every transition of record mode from inactive to active
\* seeds the tracks: right after it every track holds, at all steps, the
\* value it held at the cursor
C34_EveryStartSeeds ==
    [][(~recordingEnabled /\ recordingEnabled') =>
          \A i \in Tracks, j \in Steps :
              pLockValues'[i][j] = pLockValues[i][currentStep]]_vars

\* C36 as stated: pressing and then releasing Shift+1 or Shift+2 leaves the
\* record-mode flag equal to its value before the press
C36_ModeKeyKeepsRecordFlag ==
    [][(lastOp.op = "keyPressed" /\ lastOp'.op = "keyReleased"
          /\ lastOp'.value = 1) =>
          recordingEnabled' = lastOp.flag]_vars

\* C35 as stated: in record mode, with smoothing factor 0 and no audio
\* offset, after setLumakeyValue(v) with |v| >= 0.01 and the advance that
\* follows it, getLumakeyValue returns v: the performed value counts once
C35_PerformedValueCountsOnce ==
    [][(/\ lastOp.op = "lumakeyValue" /\ lastOp.flag
        /\ recordingEnabled
        /\ pLockSmoothFactor = 0
        /\ audioOffset["lumakeyValue"] = 0
        /\ Abs(lastOp.value) >= DeadbandThreshold
        /\ lastOp'.op = "updatePLocks") =>
          getLumakeyValue' = lastOp.value]_vars

----------------------------------------------------------------------------
(* The parameter keys, pressed while audio offsets and loaded automation  *)
(* play                                                                   *)

ParamKeys == {97, 122, 91, 93}

\* the steps of the keys: 0.01 on the luma key value, one frame of delay
KeyStep(key) ==
    CASE key = 97 -> Unit \div 100
      [] key = 122 -> -(Unit \div 100)
      [] key = 91 -> 1
      [] key = 93 -> -1

KeyParam(key) == IF key \in {97, 122} THEN "lumakeyValue" ELSE "delayAmount"

\* how far the keys are followed
KeyRange == 3 * (Unit \div 100)

KeyNext ==
    \/ \E xml \in {NoFile, FileA} : Setup(xml)
    \/ update
    \/ \E o \in {0} \cup OffsetValues :
          Call(Called("setAudioOffset", 0, o, FALSE), setAudioLumakeyValueOffset(o))
    \/ \E o \in {0} \cup DelayOffsets :
          Call(Called("setAudioOffset", 0, o, FALSE), setAudioDelayAmountOffset(o))
    \/ \E key \in ParamKeys :
          /\ Abs(base["lumakeyValue"]) < KeyRange
          /\ Abs(base["delayAmount"]) < DEFAULT_FRAME_BUFFER_LENGTH
          /\ Call(Called("keyPressed", key, 0, FALSE), keyPressed(key, FALSE))

KeySpec == ModeInit /\ [][KeyNext]_vars

\* C37 as stated, for 'a', 'z' and '[': a parameter key changes the
\* parameter's base by exactly the key's step, whatever the audio offset and
\* the automation value are
C37_KeyStepsBase ==
    [][(lastOp'.op = "keyPressed" /\ lastOp'.index \in {97, 122, 91}) =>
          base'[KeyParam(lastOp'.index)] =
              base[KeyParam(lastOp'.index)] + KeyStep(lastOp'.index)]_vars

----------------------------------------------------------------------------
(* Overdubbing (checked under Spec) *)

\* C38: while record mode stays active, a step of a track keeps its raw
\* value through every operation other than a recordParameter on that track
\* at that step, startRecording, clearAllLocks, resetToDefaults and a
\* settings load; so a recorded value is still there when the cursor comes
\* back after P_LOCK_SIZE advances, and recording on one track never alters
\* another track.
C38_OverdubPersistence ==
    [][(/\ recordingEnabled /\ recordingEnabled'
        /\ lastOp'.op \notin {"setup", "startRecording", "clearAllLocks",
                              "resetToDefaults"}) =>
          \A c \in AllTracksAndSteps :
              \/ pLockValues'[c[1]][c[2]] = pLockValues[c[1]][c[2]]
              \/ /\ lastOp'.op = "recordParameter"
                 /\ c = <<lastOp'.index, currentStep>>]_vars

\* recording went on for P_LOCK_SIZE advances and the cursor is back at
\* step 0, where the recorded value of DELAY_AMOUNT still is; the next step
\* holds another value and the other tracks were not written
C38_Witness ==
    /\ lastOp.op = "updatePLocks"
    /\ recordingEnabled
    /\ ticks >= P_LOCK_SIZE
    /\ currentStep = 0
    /\ pLockValues[DELAY_AMOUNT][0] = -300
    /\ pLockValues[DELAY_AMOUNT][1] # -300
    /\ \A i \in Tracks \ {DELAY_AMOUNT} : pLockValues[i][0] # -300

----------------------------------------------------------------------------
\* C39 as stated: when the pipeline has run on every tick and the ring is
\* filled, a larger delay reads an older frame: for 0 <= D1 < D2 <= N - 1
\* the frame read with D2 was drawn no later than the frame read with D1
C39_DelayMonotone ==
    [][(lastOp'.op = "update" /\ lastOp'.flag /\ RanEveryTick) =>
          \A d1, d2 \in 0 .. (frameBufferLength - 1) :
              d1 < d2 =>
                 pastFrames[DelayIndex(frameBufferLength, currentFrameIndex, d2)]
                    <= pastFrames[DelayIndex(frameBufferLength, currentFrameIndex, d1)]]_vars

----------------------------------------------------------------------------
\* C40 as stated: the allocation-tracking array always has exactly one entry
\* per ring slot, also after the ring length was loaded from the settings
C40_OneEntryPerSlot ==
    DOMAIN pastFramesAllocated = 0 .. (frameBufferLength - 1)

====
